---- MODULE Spec2Model ----
(***************************************************************************)
(* Model of the scheduler core of the self-replicating factory simulation  *)
(* (self_replicating_factory_sim.py): recipe expansion, the priority       *)
(* queue, the gate sequence of process_task, task completion, the blocked  *)
(* task retry, storage, battery and waste stream.                          *)
(*                                                                         *)
(* Units.  The source computes in floats; the model uses fixed point:      *)
(*   quantities    1/100 of a unit (ton)          "c"                      *)
(*   time          seconds (one tick of 0.1 h = 360 s)                     *)
(*   energy        kW*s  (1 kWh = 3600 kW*s)                               *)
(*   efficiency    permille,  quality rate  percent                        *)
(* Divisions round down.  Random draws of the source (quality jitter,      *)
(* weather, module failure) are nondeterministic choices.                  *)
(***************************************************************************)
EXTENDS Integers, Sequences, FiniteSets, TLC

VARIABLES
    time,                \* Factory.time, in seconds
    ticks,               \* number of simulate_step calls made so far
    task_counter,        \* Factory.task_counter
    tasks,               \* the Task objects reachable from the containers, by task number
    task_queue,          \* Factory.task_queue: heap of (priority, task_id) entries
    active_tasks,        \* Factory.active_tasks (keys)
    blocked_tasks,       \* Factory.blocked_tasks (keys)
    completed_tasks,     \* Factory.completed_tasks (list)
    completed_task_ids,  \* Factory.completed_task_ids (set)
    module_states,       \* Factory.module_states
    current_inventory,   \* StorageSystem.current_inventory (dict: only the keys present)
    waste_inventory,     \* WasteStream.waste_inventory
    battery_charge_kwh,  \* EnergySystem.battery_charge_kwh, in kW*s
    started,             \* tasks for which process_task returned True in the last call of simulate_step, in order
    completed_this_step, \* local list completed_this_step of the last update_active_tasks
    unblocked,           \* local list unblocked of the last check_blocked_tasks, with the status each task had
    cycle_error,         \* the last create_production_task call raised CircularDependencyError
    attempts,            \* the process_task calls of the last simulate_step, in order, with what each did
    target_modules,      \* the (output, quantity) requests made of this factory
    max_hours,           \* the simulated time the run is given, in ticks
    run_status,          \* where run_simulation is: "none" (not called), "new", "running", "complete", "stuck", "time_up"
    last_report,         \* local last_report of run_simulation, as the tick count at that report
    software_library,    \* SoftwareProductionSystem.software_library: the packages, each with its key
    version_counter,     \* SoftwareProductionSystem.version_counter
    requested,           \* the output asked of the last create_production_task call from outside
    transport_system,    \* Factory.transport_system: the TransportSystem object
    resource_cache,      \* a ResourceCalculationCache object
    event_bus,           \* an EventBus object
    orchestrator         \* a SubsystemOrchestrator object

factory_vars == << time, ticks, task_counter, tasks, task_queue, active_tasks, blocked_tasks,
           completed_tasks, completed_task_ids, module_states, current_inventory,
           waste_inventory, battery_charge_kwh, started, completed_this_step,
           unblocked, cycle_error, attempts, target_modules, max_hours,
           run_status, last_report, software_library, version_counter, requested >>

vars == << factory_vars, transport_system, resource_cache, event_bus, orchestrator >>

-----------------------------------------------------------------------------
(* Bounds of the model *)

MaxTasks == 4
MaxTicks == 14
MaxCreateTick == 0
MaxFailures == 1
MaxJobs == 4
MaxPasses == 3
MaxLiveJobs == 3
MaxCacheSize == 3
MaxCacheCalls == 5
MaxDrops == 3
MaxPublishes == 3
MaxSubscriptions == 3

-----------------------------------------------------------------------------
(* Small helpers *)

Min(a, b) == IF a <= b THEN a ELSE b
Max(a, b) == IF a >= b THEN a ELSE b
Abs(a) == IF a >= 0 THEN a ELSE 0 - a

RECURSIVE SumOver(_, _)
SumOver(f, S) ==
    IF S = {} THEN 0
    ELSE LET x == CHOOSE y \in S : TRUE IN f[x] + SumOver(f, S \ {x})

Range(s) == { s[i] : i \in 1..Len(s) }

None == "none"
NoTask == 0

-----------------------------------------------------------------------------
(* Constants of the simulation *)

DT == 360                          \* duration_hours = 0.1 of simulate_step
MAX_TASK_STARTS_PER_STEP == 5
BATTERY_CAPACITY == 3600000        \* battery_capacity_kwh = 1000
BATTERY_EFFICIENCY_PCT == 95       \* CONFIG["battery_efficiency"] = 0.95
FACTORY_AREA_M2 == 200000          \* config["factory_area_m2"] (CONFIG default 20000)
AMBIENT_TEMPERATURE == 25          \* CONFIG["ambient_temperature"]
COOLING_CAPACITY == 10000          \* ThermalManagementSystem.cooling_capacity, kW
CHILLER_EFFICIENCY_X100 == 350     \* ThermalManagementSystem.chiller_efficiency = 3.5
MAINTENANCE_DURATION == 28800      \* maintenance_duration = 8.0 hours

\* Storage limits of the modelled configuration (max_storage_volume_m3 = 150,
\* max_storage_weight_tons = 120; the CONFIG defaults are 15000 and 10000),
\* in c; enable_storage_limits is on.
TOTAL_VOLUME_M3 == 15000
TOTAL_WEIGHT_CAPACITY_TONS == 12000
STORAGE_ENABLED == TRUE
TEMPERATURE_CONTROLLED == TRUE

\* Solar generation (kW) is a random function of the weather; the model
\* draws it from these levels.
SolarLevels == {0, 20000}

\* quality_rate after the clamp max(0.5, min(1.0, .)), in percent.
QualityRates == {50, 100}

\* Ticks n (time = n * 0.1 accumulated in double precision) at which
\* int(self.time * 10) % 10 == 0 holds, for n <= 1001.
CheckTicks ==
    {0, 11, 20, 30, 40} \cup { 10 * k + 1 : k \in 5..18 }
        \cup { 10 * k : k \in 19..75 } \cup { 10 * k + 1 : k \in 76..100 }

-----------------------------------------------------------------------------
(* Resource and recipe catalog *)

Kinds == {"iron_ore", "steel", "steel_beam", "plastic", "loop_a", "par_p", "side_b", "cyc_c",
          "wafer", "chip", "lens", "gauge", "melt", "gadget",
          "kit", "bar", "pin", "plc_program", "robot_firmware",
          "truss", "strut", "brace", "rod", "casing", "resin",
          "stamp", "plate"}

\* StorageSystem.MATERIAL_PROPERTIES with the default (1.0, 25, 0.5):
\* density in tenths of t/m3, storage temperature in C.
MaterialDensityX10(r) == IF r = "iron_ore" THEN 40 ELSE 10
MaterialTemp(r) == 25

Recipe(out, oq, ins, mod) ==
    [output |-> out, output_quantity |-> oq, inputs |-> ins, required_module |-> mod,
     tolerance_um |-> 0, cleanroom_class |-> 0, software_required |-> None]

\* a recipe with tolerance_um set (0: not set)
RecipeTol(out, oq, ins, mod, tol) ==
    [Recipe(out, oq, ins, mod) EXCEPT !.tolerance_um = tol]

\* a recipe with cleanroom_class set (0: not set)
RecipeClean(out, oq, ins, mod, class) ==
    [Recipe(out, oq, ins, mod) EXCEPT !.cleanroom_class = class]

\* a recipe with software_required set
RecipeSoft(out, oq, ins, mod, sw) ==
    [Recipe(out, oq, ins, mod) EXCEPT !.software_required = sw]

\* The recipe list of the modelled configuration: a raw material, a two
\* step chain, a self-referential recipe (loop_a <- loop_a) and a cycle
\* par_p <- cyc_c <- par_p whose parent has the non-cyclic sibling input
\* side_b listed first; recipes with a cleanroom class (wafer 1000, chip
\* 10) and with a tolerance (gauge 1 on cnc, lens 1 on
\* mechanical, as FOCUSING_LENS); melt on the furnace; gadget on a module
\* kind "fab" of which there is no instance and which no recipe produces;
\* kit with six raw inputs made on six module kinds; the software
\* plc_program and robot_firmware, which requires it; the diamond truss <-
\* {strut, brace}, strut <- rod, brace <- rod; casing, made of resin, for
\* which there is no recipe; stamp and plate, both made on the press.
RECIPES == <<
    Recipe("iron_ore",   1000, << >>, "mining"),
    Recipe("steel",      500,  << <<"iron_ore", 600>> >>, "refining"),
    Recipe("steel_beam", 1,    << <<"steel", 10>> >>, "cnc"),
    Recipe("loop_a",     1,    << <<"loop_a", 1>> >>, "mining"),
    Recipe("side_b",     1,    << >>, "mining"),
    Recipe("cyc_c",      1,    << <<"par_p", 1>> >>, "mining"),
    Recipe("par_p",      1,    << <<"side_b", 1>>, <<"cyc_c", 1>> >>, "mining"),
    RecipeClean("wafer", 1,    << >>, "cleanroom", 1000),
    RecipeClean("chip",  1,    << >>, "cleanroom", 10),
    RecipeTol("gauge",   1,    << >>, "cnc", 1),
    RecipeTol("lens",    1,    << >>, "mechanical", 1),
    Recipe("melt",       1,    << >>, "furnace"),
    Recipe("gadget",     1,    << >>, "fab"),
    Recipe("bar",        1,    << >>, "refining"),
    Recipe("pin",        1,    << >>, "cnc"),
    Recipe("kit",        1,    << <<"side_b", 1>>, <<"bar", 1>>, <<"pin", 1>>,
                                  <<"lens", 1>>, <<"wafer", 1>>, <<"melt", 1>> >>, "mining"),
    Recipe("plc_program", 1,   << >>, "mining"),
    RecipeSoft("robot_firmware", 1, << >>, "refining", "plc_program"),
    Recipe("rod",        1,    << >>, "mining"),
    Recipe("strut",      1,    << <<"rod", 1>> >>, "refining"),
    Recipe("brace",      1,    << <<"rod", 1>> >>, "cnc"),
    Recipe("truss",      1,    << <<"strut", 1>>, <<"brace", 1>> >>, "mechanical"),
    Recipe("casing",     1,    << <<"resin", 1>> >>, "mining"),
    Recipe("stamp",      1,    << >>, "press"),
    Recipe("plate",      1,    << >>, "press") >>

HasRecipe(r) == \E i \in 1..Len(RECIPES) : RECIPES[i].output = r

\* next((r for r in RECIPES if r.output == output), None)
FindRecipe(r) ==
    RECIPES[CHOOSE i \in 1..Len(RECIPES) :
                /\ RECIPES[i].output = r
                /\ \A j \in 1..(i-1) : RECIPES[j].output # r]

\* WasteStream.recyclable_materials, recovery rate in percent (0: not recyclable)
RecoveryRate(r) == IF r = "steel" THEN 95 ELSE IF r = "plastic" THEN 60 ELSE 0
Recyclable(r) == RecoveryRate(r) > 0

-----------------------------------------------------------------------------
(* Module kinds *)

ModuleSpec(thr, idle, act, maint, degr, maxb, minb, setup, tol) ==
    [max_throughput |-> thr, power_consumption_idle |-> idle,
     power_consumption_active |-> act, maintenance_interval |-> maint,
     degradation_rate |-> degr, max_batch_size |-> maxb, min_batch_size |-> minb,
     setup_time |-> setup, tolerance_capability |-> tol, cleanroom_capable |-> 0]

\* a module kind with cleanroom_capable set
ModuleSpecClean(thr, idle, act, maint, degr, maxb, minb, setup, class) ==
    [ModuleSpec(thr, idle, act, maint, degr, maxb, minb, setup, 0)
        EXCEPT !.cleanroom_capable = class]

\* MODULE_SPECS of the modelled configuration: powers, maintenance
\* intervals, batch sizes and degradation rates are those of the default
\* mining, refining and cnc entries; throughputs are higher and setup times
\* shorter, so that a task takes one or two steps.  Throughput in units/h,
\* power in kW, maintenance_interval and setup_time in seconds, batch sizes
\* in c, degradation_rate in permille (of the efficiency, per 1000 h).
\* mechanical (no tolerance_capability) has the default powers, interval and
\* batch sizes; cleanroom has the default powers, interval, batch sizes and
\* setup time, a throughput of 1 unit/h and a class 1000 room; furnace is a module
\* kind whose active power alone exceeds what the chillers can remove; press
\* is a module kind that draws no power when idle, is due for maintenance
\* after 0.1 h of operation and loses a tenth of its efficiency in 0.2 h.
MODULE_SPECS ==
    [mining     |-> ModuleSpec(36000, 5, 50, 1800000, 20, 10000, 100, 360, 0),
     refining   |-> ModuleSpec(1800, 10, 100, 1080000, 30, 5000, 500, 360, 0),
     cnc        |-> ModuleSpec(3600, 10, 50, 360000, 50, 5000, 100, 360, 5),
     mechanical |-> ModuleSpec(36000, 15, 60, 1440000, 25, 50000, 1000, 180, 0),
     cleanroom  |-> ModuleSpecClean(1, 50, 150, 360000, 20, 100000, 1000, 21600, 1000),
     furnace    |-> ModuleSpec(36000, 10, 20000, 1800000, 20, 10000, 100, 360, 0),
     press      |-> ModuleSpec(10, 0, 50, 360, 500000, 10000, 100, 360, 0)]

ModuleIds == {"mining_001", "refining_001", "cnc_001", "mechanical_001",
              "cleanroom_001", "furnace_001", "press_001"}

ModuleTypeOf(m) ==
    CASE m = "mining_001" -> "mining"
      [] m = "refining_001" -> "refining"
      [] m = "cnc_001" -> "cnc"
      [] m = "mechanical_001" -> "mechanical"
      [] m = "cleanroom_001" -> "cleanroom"
      [] m = "furnace_001" -> "furnace"
      [] m = "press_001" -> "press"

SpecOf(ms) == MODULE_SPECS[ms.module_type]

-----------------------------------------------------------------------------
(* Storage *)

\* quantity / density, in 1/40 of c-m3 (exact for the densities above)
VolumeX40(r, q) == (q * 400) \div MaterialDensityX10(r)

CurrentVolumeX40(inv) ==
    SumOver([r \in DOMAIN inv |-> VolumeX40(r, inv[r])], DOMAIN inv)

CurrentWeight(inv) == SumOver(inv, DOMAIN inv)

\* StorageSystem.can_store: the reason string ("OK" when accepted)
can_store_reason(inv, r, q) ==
    IF ~STORAGE_ENABLED THEN "OK"
    ELSE IF CurrentVolumeX40(inv) + VolumeX40(r, q) > 40 * TOTAL_VOLUME_M3
        THEN "VOLUME_EXCEEDED"
    ELSE IF CurrentWeight(inv) + q > TOTAL_WEIGHT_CAPACITY_TONS
        THEN "WEIGHT_EXCEEDED"
    ELSE IF TEMPERATURE_CONTROLLED
            /\ \E sr \in DOMAIN inv : Abs(MaterialTemp(sr) - MaterialTemp(r)) > 10
        THEN "TEMPERATURE_INCOMPATIBLE"
    ELSE "OK"

can_store(inv, r, q) == can_store_reason(inv, r, q) = "OK"

\* current_inventory.get(r, 0)
InvGet(inv, r) == IF r \in DOMAIN inv THEN inv[r] ELSE 0

InvPut(inv, r, q) == [x \in DOMAIN inv \cup {r} |-> IF x = r THEN q ELSE inv[x]]

\* add_resource without the can_store check
add_resource_unchecked(inv, r, q) == InvPut(inv, r, InvGet(inv, r) + q)

\* StorageSystem.add_resource: the inventory after the call (unchanged when rejected)
add_resource(inv, r, q) ==
    IF can_store(inv, r, q) THEN InvPut(inv, r, InvGet(inv, r) + q) ELSE inv

-----------------------------------------------------------------------------
(* Energy *)

\* update_battery whose discharge ignores the 20% reserve
update_battery_nofloor(charge, energy_delta) ==
    IF energy_delta > 0
    THEN LET charge_rate == Min(energy_delta, BATTERY_CAPACITY \div 2)
             actual_charge == (charge_rate * BATTERY_EFFICIENCY_PCT) \div 100
         IN  Min((BATTERY_CAPACITY * 95) \div 100, charge + actual_charge)
    ELSE charge - Min(Abs(energy_delta), BATTERY_CAPACITY \div 2)

\* EnergySystem.update_battery: the charge after applying the signed delta
update_battery(charge, energy_delta) ==
    IF energy_delta > 0
    THEN LET charge_rate == Min(energy_delta, BATTERY_CAPACITY \div 2)
             actual_charge == (charge_rate * BATTERY_EFFICIENCY_PCT) \div 100
         IN  Min((BATTERY_CAPACITY * 95) \div 100, charge + actual_charge)
    ELSE LET discharge_requested == Abs(energy_delta)
             max_discharge == BATTERY_CAPACITY \div 2
             actual_discharge == Min(Min(discharge_requested, max_discharge),
                                     charge - (BATTERY_CAPACITY * 20) \div 100)
         IN  charge - actual_discharge

-----------------------------------------------------------------------------
(* Module state and thermal management *)

\* ModuleState.get_power_consumption, kW (every modelled module has a spec)
get_power_consumption(ms) ==
    IF ms.is_failed THEN 0
    ELSE IF ms.is_in_maintenance THEN SpecOf(ms).power_consumption_idle \div 2
    ELSE IF ms.current_task # NoTask THEN SpecOf(ms).power_consumption_active
    ELSE SpecOf(ms).power_consumption_idle

\* ThermalManagementSystem.calculate_module_heat over the modules in ids, times 10
calculate_module_heat_x10(mods, ids) ==
    SumOver([m \in ids |-> 8 * get_power_consumption(mods[m])], ids)

\* cop = max(1.5, chiller_efficiency - 0.05 * |ambient - 22|), times 100
CopX100 == Max(150, CHILLER_EFFICIENCY_X100 - 5 * Abs(AMBIENT_TEMPERATURE - 22))

\* ThermalManagementSystem.check_thermal_constraints:
\* (heat + 0.1 * area) / cop <= cooling_capacity
check_thermal_constraints(heat_x10) ==
    (heat_x10 + FACTORY_AREA_M2) * 100 <= COOLING_CAPACITY * 10 * CopX100

\* calculate_cooling_requirement(heat) * duration, in kW*s
CoolingEnergy(heat_x10) == ((heat_x10 + FACTORY_AREA_M2) * 3600) \div CopX100

\* ModuleState.get_effective_throughput, units/h times 1000 (temperature is
\* 22 C and no software version is installed in the modelled runs)
get_effective_throughput(ms) ==
    IF ms.is_failed \/ ms.is_in_maintenance THEN 0
    ELSE SpecOf(ms).max_throughput * ms.current_efficiency

-----------------------------------------------------------------------------
(* The priority queue *)

RECURSIVE Digits(_)
Digits(n) == IF n < 10 THEN << n >> ELSE Append(Digits(n \div 10), n % 10)

RECURSIVE Pad5(_)
Pad5(d) == IF Len(d) >= 5 THEN d ELSE Pad5(<< 0 >> \o d)

\* The part of task_id = f"task_{task_counter:05d}_{output.value}" that
\* decides the string order: the zero padded decimal digits of the counter
\* followed by "_" (code 10 here: it sorts after every digit).
TaskIdStr(n) == Pad5(Digits(n)) \o << 10 >>

\* a < b for two such strings (neither is a prefix of the other)
StrLess(a, b) ==
    \E k \in 1..Min(Len(a), Len(b)) :
        /\ a[k] < b[k]
        /\ \A j \in 1..(k-1) : a[j] = b[j]

\* tuple comparison of the heap entries (priority, task_id, task)
EntryLess(e1, e2) ==
    \/ e1[1] < e2[1]
    \/ e1[1] = e2[1] /\ StrLess(TaskIdStr(e1[2]), TaskIdStr(e2[2]))

\* a plain list append in place of heappush
heappush_append(q, e) == Append(q, e)

\* heapq.heappush: the heap is kept as the sequence of its entries in pop order
heappush(q, e) ==
    LET k == Cardinality({ i \in 1..Len(q) : ~EntryLess(e, q[i]) })
    IN  SubSeq(q, 1, k) \o << e >> \o SubSeq(q, k + 1, Len(q))

\* heapq.heappop: the smallest entry, and the heap without it
heappop_entry(q) == Head(q)
heappop_rest(q) == Tail(q)

QueueIds(q) == { q[i][2] : i \in 1..Len(q) }

-----------------------------------------------------------------------------
(* The transport system *)

\* Units of this part: job quantities in whole units (the unit of
\* max_load and conveyor_capacity), times in seconds, battery level and
\* conveyor utilization in permille.  A job's completion_time is kept as
\* the time still to run from the current tick, so that
\* "current_time >= job.completion_time" reads "completion_time <= 0".

NoAgv == 0 - 1                      \* assigned_vehicle is None
NoTime == 1000000000                \* start_time, completion_time is None
AGV_FLEET_SIZE == 10                \* CONFIG["agv_fleet_size"]
CONVEYOR_CAPACITY == 1000
CONVEYOR_SPEED == 2
AGV_MAX_LOAD == 2000
AGV_SPEED_MPS == 1
MAX_STARTS == 5
OUTPUT_TRANSPORT_PRIORITY == 50     \* "Lower priority for output"
TRANSPORT_POWER_KW_PER_ACTIVE == 2
MAX_CONCURRENT_TRANSPORTS == 20

\* TransportSystem._generate_layout: the grid positions of the module kinds
module_locations ==
    [m \in {"mining", "refining", "chemical", "electronics", "mechanical"} |->
        CASE m = "mining" -> << 0, 0 >>
          [] m = "refining" -> << 50, 0 >>
          [] m = "chemical" -> << 100, 0 >>
          [] m = "electronics" -> << 150, 0 >>
          [] m = "mechanical" -> << 0, 50 >>]

calculate_distance(from_module, to_module) ==
    IF from_module \notin DOMAIN module_locations \/ to_module \notin DOMAIN module_locations
    THEN 100
    ELSE Abs(module_locations[to_module][1] - module_locations[from_module][1])
         + Abs(module_locations[to_module][2] - module_locations[from_module][2])

\* the AGV fleet built by TransportSystem.__init__
NewAgv == [status |-> "idle", battery_level |-> 1000, maintenance_hours |-> 0]

\* TransportSystem.__init__; calls and jobs say which schedule_transport
\* calls this system is going to receive, and how many
NewTransportSystem(agv_fleet_size, calls, jobs) ==
    [transport_queue |-> << >>, active_transports |-> << >>,
     completed_transports |-> << >>,
     agv_fleet |-> [i \in 0..(agv_fleet_size - 1) |-> NewAgv],
     conveyor_utilization |-> 0,
     scheduled |-> 0, jobs_started |-> 0, agv_jobs |-> {}, raised |-> FALSE,
     passes |-> 0,
     phase |-> "process", calls |-> calls, jobs |-> jobs]

\* a transport system that receives no calls
NoCalls ==
    [agv_fleet_size |-> AGV_FLEET_SIZE, loads |-> {}, priorities |-> {}, jobs |-> 0,
     window |-> 0]

\* the transport system of a factory, left alone
TransportIdle == transport_system = NewTransportSystem(AGV_FLEET_SIZE, NoCalls, 0)

\* dataclass equality of two TransportJob objects
JobEq(a, b) == [a EXCEPT !.uid = 0] = [b EXCEPT !.uid = 0]

\* (priority, job_id, job) < (priority, job_id, job) on the first two items
KeyLess(a, b) ==
    \/ a.priority < b.priority
    \/ a.priority = b.priority /\ a.job_id < b.job_id

SameKey(a, b) == a.priority = b.priority /\ a.job_id = b.job_id

\* the comparison reaches the TransportJob objects, which have no order
Unorderable(a, b) == SameKey(a, b) /\ ~JobEq(a, b)

Swap(heap, i, j) == [heap EXCEPT ![i] = heap[j], ![j] = heap[i]]

\* heapq._siftdown, positions counted from 1
RECURSIVE siftdown(_, _, _)
siftdown(heap, startpos, pos) ==
    IF ~(pos > startpos) THEN [heap |-> heap, raised |-> FALSE]
    ELSE IF Unorderable(heap[pos], heap[pos \div 2]) THEN [heap |-> heap, raised |-> TRUE]
    ELSE IF KeyLess(heap[pos], heap[pos \div 2])
         THEN siftdown(Swap(heap, pos, pos \div 2), startpos, pos \div 2)
    ELSE [heap |-> heap, raised |-> FALSE]

\* the child heapq._siftup moves up: the right one unless the left is smaller
SmallerChild(heap, pos) ==
    IF 2 * pos + 1 <= Len(heap) /\ ~KeyLess(heap[2 * pos], heap[2 * pos + 1])
    THEN 2 * pos + 1
    ELSE 2 * pos

\* heapq._siftup, positions counted from 1
RECURSIVE siftup(_, _)
siftup(heap, pos) ==
    IF 2 * pos > Len(heap) THEN siftdown(heap, 1, pos)
    ELSE IF 2 * pos + 1 <= Len(heap) /\ Unorderable(heap[2 * pos], heap[2 * pos + 1])
         THEN [heap |-> heap, raised |-> TRUE]
    ELSE siftup(Swap(heap, pos, SmallerChild(heap, pos)), SmallerChild(heap, pos))

heapq_heappush(heap, item) == siftdown(Append(heap, item), 1, Len(heap) + 1)

\* the heap after heapq.heappop (the item returned is heap[1])
heapq_heappop(heap) ==
    IF Len(heap) = 1 THEN [heap |-> << >>, raised |-> FALSE]
    ELSE siftup([SubSeq(heap, 1, Len(heap) - 1) EXCEPT ![1] = heap[Len(heap)]], 1)

\* TransportJob(job_id, from_module, to_module, resource_type, quantity,
\* priority, distance)
TransportJob(job_id, from_module, to_module, resource, quantity, priority, distance, uid) ==
    [job_id |-> job_id, from_module |-> from_module, to_module |-> to_module,
     resource_type |-> resource, quantity |-> quantity, priority |-> priority,
     distance |-> distance, assigned_vehicle |-> NoAgv, start_time |-> NoTime,
     completion_time |-> NoTime, uid |-> uid]

\* the system after heappush returned r for the job with the given serial
Scheduled(ts, r, uid) ==
    [ts EXCEPT !.transport_queue = r.heap, !.raised = r.raised, !.scheduled = uid]

schedule_transport(ts, from_module, to_module, resource, quantity, priority) ==
    Scheduled(ts,
              heapq_heappush(ts.transport_queue,
                             TransportJob(Len(ts.transport_queue), from_module, to_module,
                                          resource, quantity, priority,
                                          calculate_distance(from_module, to_module),
                                          ts.scheduled + 1)),
              ts.scheduled + 1)

\* the AGVs find_available_agv accepts.  The battery level of an idle AGV
\* is 1.0 less a number of steps of 0.1; in floating point the eighth such
\* step gives 0.20000000000000015, which is > 0.2.
AvailableAgvs(ts, load_weight) ==
    { a \in DOMAIN ts.agv_fleet :
        /\ ts.agv_fleet[a].status = "idle"
        /\ ts.agv_fleet[a].battery_level >= 200
        /\ AGV_MAX_LOAD >= load_weight }

MinOf(S) == CHOOSE x \in S : \A y \in S : x <= y

find_available_agv(ts, load_weight) ==
    IF AvailableAgvs(ts, load_weight) = {} THEN NoAgv
    ELSE MinOf(AvailableAgvs(ts, load_weight))

\* self.active_transports[job_id] = job on a dict kept in insertion order
DictSet(d, job) ==
    IF \E i \in 1..Len(d) : d[i].job_id = job.job_id
    THEN [i \in 1..Len(d) |-> IF d[i].job_id = job.job_id THEN job ELSE d[i]]
    ELSE Append(d, job)

\* the conveyor branch of process_transport_queue
OnConveyor(ts, job) ==
    [ts EXCEPT !.conveyor_utilization = @ + (job.quantity * 1000) \div CONVEYOR_CAPACITY,
               !.active_transports =
                   DictSet(@, [job EXCEPT !.completion_time =
                                              job.distance \div CONVEYOR_SPEED])]

\* load_time + travel_time + unload_time, with load_time =
\* quantity / 1000 * 0.1 hours = quantity * 0.36 seconds
TotalTime(job) == (2 * job.quantity * 36) \div 100 + job.distance \div AGV_SPEED_MPS

\* the AGV branch of process_transport_queue
OnAgv(ts, job, agv_id) ==
    [ts EXCEPT !.agv_fleet[agv_id].status = "transporting",
               !.agv_fleet[agv_id].battery_level = @ - job.distance,
               !.agv_jobs = @ \cup {job.uid},
               !.active_transports =
                   DictSet(@, [job EXCEPT !.assigned_vehicle = agv_id,
                                          !.start_time = 0,
                                          !.completion_time = TotalTime(job)])]

\* "No AGV available, put back in queue", r being what heappush returned
PutBack(ts, r, jobs_started) ==
    [ts EXCEPT !.transport_queue = r.heap, !.raised = r.raised,
               !.jobs_started = jobs_started]

RECURSIVE StartJobs(_, _)

\* the body of the loop for the job popped, the queue being already without it
RouteJob(ts, job, jobs_started) ==
    IF job.quantity < 100 /\ ts.conveyor_utilization < 800
    THEN StartJobs(OnConveyor(ts, job), jobs_started + 1)
    ELSE IF find_available_agv(ts, job.quantity) # NoAgv
         THEN StartJobs(OnAgv(ts, job, find_available_agv(ts, job.quantity)),
                        jobs_started + 1)
    ELSE PutBack(ts, heapq_heappush(ts.transport_queue, job), jobs_started)

\* heappop returned r (the job popped is job), or raised
Popped(ts, job, r, jobs_started) ==
    IF r.raised THEN [ts EXCEPT !.raised = TRUE, !.jobs_started = jobs_started]
    ELSE RouteJob([ts EXCEPT !.transport_queue = r.heap], job, jobs_started)

\* "while self.transport_queue and jobs_started < max_starts", from the
\* test of the condition on
LoopTest(ts, jobs_started) ==
    IF ts.transport_queue = << >> \/ ~(jobs_started < MAX_STARTS)
    THEN [ts EXCEPT !.jobs_started = jobs_started]
    ELSE Popped(ts, ts.transport_queue[1], heapq_heappop(ts.transport_queue),
                jobs_started)

\* the loop, entered with the system in the state s (worked out once)
StartJobs(s, jobs_started) ==
    CHOOSE r \in { LoopTest(ts, jobs_started) : ts \in {s} } : TRUE

process_transport_queue(ts) == StartJobs(ts, 0)

\* the jobs of active_transports that are complete at the current time
CompletedJobs(ts) ==
    SelectSeq(ts.active_transports, LAMBDA job : job.completion_time <= 0)

\* the AGV fleet after the first n completed jobs returned their vehicles
RECURSIVE ReleaseAgvs(_, _, _)
ReleaseAgvs(fleet, done, n) ==
    IF n = 0 THEN fleet
    ELSE IF done[n].assigned_vehicle = NoAgv THEN ReleaseAgvs(fleet, done, n - 1)
    ELSE [ReleaseAgvs(fleet, done, n - 1) EXCEPT
             ![done[n].assigned_vehicle].status = "idle",
             ![done[n].assigned_vehicle].maintenance_hours =
                 @ + (done[n].completion_time - done[n].start_time)]

\* the conveyor utilization after the first n completed jobs left it
RECURSIVE ReleaseConveyor(_, _, _)
ReleaseConveyor(utilization, done, n) ==
    IF n = 0 THEN utilization
    ELSE IF done[n].quantity < 100
         THEN Max(0, ReleaseConveyor(utilization, done, n - 1)
                     - (done[n].quantity * 1000) \div CONVEYOR_CAPACITY)
    ELSE ReleaseConveyor(utilization, done, n - 1)

update_active_transports(ts) ==
    [ts EXCEPT !.agv_fleet =
                   ReleaseAgvs(@, CompletedJobs(ts), Len(CompletedJobs(ts))),
               !.conveyor_utilization =
                   ReleaseConveyor(@, CompletedJobs(ts), Len(CompletedJobs(ts))),
               !.completed_transports =
                   @ \o [i \in 1..Len(CompletedJobs(ts)) |-> CompletedJobs(ts)[i].uid],
               !.active_transports =
                   SelectSeq(@, LAMBDA job : ~(job.completion_time <= 0))]

\* maintain_agvs, for one AGV: "Charge if battery low and idle"
LowBattery(agv) ==
    IF agv.status = "idle" /\ agv.battery_level < 300
    THEN [agv EXCEPT !.status = "charging"]
    ELSE agv

\* maintain_agvs, for one AGV: "Charging"
Charging(agv) ==
    IF agv.status # "charging" THEN agv
    ELSE [agv EXCEPT !.battery_level = Min(1000, @ + 100),
                     !.status = IF Min(1000, agv.battery_level + 100) >= 950
                                THEN "idle" ELSE "charging"]

\* maintain_agvs, for one AGV: "Scheduled maintenance" (hours kept in seconds)
ScheduledMaintenance(agv) ==
    IF agv.maintenance_hours > 100 * 3600
    THEN [agv EXCEPT !.status = "maintenance", !.maintenance_hours = 0]
    ELSE agv

maintain_agvs(ts) ==
    [ts EXCEPT !.agv_fleet =
        [a \in DOMAIN @ |-> ScheduledMaintenance(Charging(LowBattery(@[a])))]]

\* "self.time += step_duration" of simulate_step, seen from a job: its times
\* are kept relative to the current time
LaterJob(job) ==
    [job EXCEPT !.completion_time = @ - DT,
                !.start_time = IF @ = NoTime THEN NoTime ELSE @ - DT]

LaterTick(ts) ==
    [ts EXCEPT !.active_transports = [i \in 1..Len(@) |-> LaterJob(@[i])]]

-----------------------------------------------------------------------------
(* Recipe expansion *)

NewTask(priority, output, quantity, deps) ==
    [priority |-> priority, output |-> output, quantity |-> quantity,
     dependencies |-> deps, status |-> "queued", assigned_module |-> None,
     setup_time |-> 0, process_time |-> 0, completion_time |-> 0,
     actual_output |-> 0, energy_consumed |-> 0,
     waste_kind |-> None, waste_qty |-> 0]

\* WasteStream.process_recycling: amount taken from the waste, amount recovered
recycling_taken(waste, r, quantity) ==
    IF Recyclable(r) THEN Min(quantity, waste[r]) ELSE 0
recycling_recovered(waste, r, quantity) ==
    (recycling_taken(waste, r, quantity) * RecoveryRate(r)) \div 100

\* required = input_qty * quantity / recipe.output_quantity
RequiredInput(recipe, i, quantity) ==
    (recipe.inputs[i][2] * quantity) \div recipe.output_quantity

\* deficit * 1.1
WithBuffer(deficit) == (deficit * 11) \div 10

\* the _visited set a recursive call is given if one set is shared by all
\* calls and nothing is ever removed from it: the kinds of all tasks made
ChildVisited_shared(f, visited) ==
    visited \cup { f.tasks[t].output : t \in DOMAIN f.tasks }

\* _visited.copy(): the recursive call gets the kinds on the path to it
ChildVisited(f, visited) == visited

\* "recipe.software_required not in self.software_system.software_library":
\* the dict is keyed by the package keys
NotInLibrary(f, software_required) ==
    \A package \in f.software_library : package.key # software_required

RECURSIVE create_production_task(_, _, _, _, _)
RECURSIVE ExpandInputs(_, _, _, _, _, _, _)

\* The loop over recipe.inputs from input i on.  Result: the factory state,
\* the dependencies collected and whether CircularDependencyError was raised.
ExpandInputs(f, recipe, i, quantity, priority, visited, deps) ==
    IF i > Len(recipe.inputs) THEN [f |-> f, deps |-> deps, raised |-> FALSE]
    ELSE
      LET input_resource == recipe.inputs[i][1]
          required == RequiredInput(recipe, i, quantity)
          taken == recycling_taken(f.waste_inventory, input_resource, required)
          available == InvGet(f.current_inventory, input_resource)
                       + recycling_recovered(f.waste_inventory, input_resource, required)
          f1 == [f EXCEPT !.waste_inventory[input_resource] = @ - taken]
      IN  IF available < required
          THEN LET d == create_production_task(f1, input_resource,
                              WithBuffer(required - available), priority + 1,
                              ChildVisited(f1, visited))
               IN  IF d.raised THEN [f |-> d.f, deps |-> deps, raised |-> TRUE]
                   ELSE ExpandInputs(d.f, recipe, i + 1, quantity, priority, visited,
                              IF d.task # NoTask THEN deps \cup {d.task} ELSE deps)
          ELSE ExpandInputs(f1, recipe, i + 1, quantity, priority, visited, deps)

\* the dependencies r collected so far, with the result d of the recursive
\* call for the software
WithSoftwareTask(r, d) ==
    IF d.raised THEN [f |-> d.f, deps |-> r.deps, raised |-> TRUE]
    ELSE [f |-> d.f,
          deps |-> IF d.task # NoTask THEN r.deps \cup {d.task} ELSE r.deps,
          raised |-> FALSE]

\* "Check if software is required", r being the result of the loop over the
\* inputs
ExpandSoftware(r, recipe, priority, visited) ==
    IF r.raised \/ recipe.software_required = None
          \/ ~NotInLibrary(r.f, recipe.software_required)
    THEN r
    ELSE WithSoftwareTask(r, create_production_task(
                                 r.f, recipe.software_required, 100, priority + 2,
                                 ChildVisited(r.f, visited)))

\* the end of create_production_task: the task with the dependencies of r
\* is pushed, unless the expansion raised
PushTask(r, id, priority, output, quantity) ==
    IF r.raised THEN [f |-> r.f, task |-> NoTask, raised |-> TRUE]
    ELSE [f |-> [r.f EXCEPT
                  !.tasks = [t \in DOMAIN @ \cup {id} |->
                               IF t = id
                               THEN NewTask(priority, output, quantity, r.deps)
                               ELSE @[t]],
                  !.task_queue = heappush(@, << priority, id >>)],
          task |-> id, raised |-> FALSE]

\* create_production_task from "Create task" on
ExpandTask(f, recipe, id, quantity, priority, visited) ==
    PushTask(ExpandSoftware(
                 ExpandInputs([f EXCEPT !.task_counter = id], recipe, 1, quantity,
                              priority, visited, {}),
                 recipe, priority, visited),
             id, priority, recipe.output, quantity)

\* Factory.create_production_task.  visited is _visited on entry.  Result:
\* the factory state after the call, the task created (NoTask for None) and
\* whether the call raised CircularDependencyError.
create_production_task(f, output, quantity, priority, visited) ==
    IF output \in visited THEN [f |-> f, task |-> NoTask, raised |-> TRUE]
    ELSE IF ~HasRecipe(output) THEN [f |-> f, task |-> NoTask, raised |-> FALSE]
    ELSE IF ~can_store(f.current_inventory, output, quantity)
        THEN [f |-> f, task |-> NoTask, raised |-> FALSE]
    ELSE ExpandTask(f, FindRecipe(output), f.task_counter + 1, quantity, priority,
                    visited \cup {output})

-----------------------------------------------------------------------------
(* Module assignment and production parameters *)

\* position of the module id in the string order of the ids
ModuleRank(m) ==
    CASE m = "cleanroom_001" -> 1
      [] m = "cnc_001" -> 2
      [] m = "furnace_001" -> 3
      [] m = "mechanical_001" -> 4
      [] m = "mining_001" -> 5
      [] m = "press_001" -> 6
      [] m = "refining_001" -> 7

\* a search that also takes modules that hold a task
SuitableModules_busy(f, module_type) ==
    { m \in DOMAIN f.module_states :
        /\ f.module_states[m].module_type = module_type
        /\ ~f.module_states[m].is_failed
        /\ ~f.module_states[m].is_in_maintenance
        /\ check_thermal_constraints(calculate_module_heat_x10(f.module_states, {m})) }

\* the modules find_available_module collects in suitable_modules
SuitableModules(f, module_type) ==
    { m \in DOMAIN f.module_states :
        /\ f.module_states[m].module_type = module_type
        /\ ~f.module_states[m].is_failed
        /\ ~f.module_states[m].is_in_maintenance
        /\ f.module_states[m].current_task = NoTask
        /\ check_thermal_constraints(calculate_module_heat_x10(f.module_states, {m})) }

\* Factory.find_available_module: the largest (current_efficiency, module_id)
find_available_module(f, module_type) ==
    LET S == SuitableModules(f, module_type)
        eff(m) == f.module_states[m].current_efficiency
    IN  IF S = {} THEN None
        ELSE CHOOSE m \in S : \A o \in S \ {m} :
                \/ eff(m) > eff(o)
                \/ eff(m) = eff(o) /\ ModuleRank(m) > ModuleRank(o)

\* batch_size of calculate_production_parameters (enable_batch_processing on)
BatchSize(spec, quantity) ==
    Max(spec.min_batch_size, Min(quantity, spec.max_batch_size))

\* "Apply tolerance constraints if applicable": the module can achieve the
\* precision, or the recipe or the module kind names none
ToleranceOk(recipe, spec) ==
    ~ /\ recipe.tolerance_um # 0
      /\ spec.tolerance_capability # 0
      /\ spec.tolerance_capability > recipe.tolerance_um

\* a cleanroom check that lets every recipe through
CleanroomOk_any(recipe, spec) == TRUE

\* "Apply cleanroom constraints": the recipe names no class, or the module
\* has a cleanroom environment (it has one when its kind is
\* cleanroom_capable) of a class that is not above the recipe's
CleanroomOk(recipe, spec) ==
    ~ /\ recipe.cleanroom_class # 0
      /\ \/ spec.cleanroom_capable = 0
         \/ spec.cleanroom_capable > recipe.cleanroom_class

\* Factory.calculate_production_parameters for task tid on module mid with
\* the drawn quality rate q.  Result: ok (FALSE for None), the module states
\* after the call (last_product_type is written before the checks) and the
\* parameters.
calculate_production_parameters(f, tid, mid, q) ==
    LET task == f.tasks[tid]
        recipe == FindRecipe(task.output)
        ms == f.module_states[mid]
        spec == SpecOf(ms)
        changeover == ms.last_product_type # task.output
        setup_time == IF changeover THEN spec.setup_time ELSE 0
        mods == [f.module_states EXCEPT ![mid].last_product_type = task.output]
        batch_size == BatchSize(spec, task.quantity)
        effective_throughput == get_effective_throughput(ms)
        tolerance_fail == ~ToleranceOk(recipe, spec)
        cleanroom_fail == ~CleanroomOk(recipe, spec)
        process_time == IF effective_throughput <= 0 THEN 0
                        ELSE (batch_size * 36 * 1000) \div effective_throughput
        waste_amount == (batch_size * (100 - q)) \div 100
        metal == task.output \in {"steel", "aluminum_sheet"}
    IN  [ok |-> ~(effective_throughput <= 0 \/ tolerance_fail \/ cleanroom_fail),
         module_states |-> mods,
         setup_time |-> setup_time,
         process_time |-> process_time,
         total_time |-> setup_time + process_time,
         energy_required |-> spec.power_consumption_idle * setup_time
                             + spec.power_consumption_active * process_time,
         expected_yield |-> (batch_size * q) \div 100,
         waste_kind |-> IF waste_amount > 0
                        THEN (IF metal THEN task.output ELSE "plastic") ELSE None,
         waste_qty |-> IF waste_amount > 0
                       THEN (IF metal THEN (waste_amount * 8) \div 10
                                      ELSE (waste_amount * 2) \div 10)
                       ELSE 0]

-----------------------------------------------------------------------------
(* process_task *)

\* a dependency gate that lets every task through
DepsIncomplete_skip(f, tid) == FALSE

\* the dependency gate: some dependency is not the id of a task in completed_tasks
DepsIncomplete(f, tid) ==
    \E dep \in f.tasks[tid].dependencies : dep \notin Range(f.completed_tasks)

\* a failed gate that files the task under blocked_tasks without a status
BlockTask_nostatus(f, tid, status) ==
    [f EXCEPT !.blocked_tasks = @ \cup {tid}]

\* a failed gate: task.status = status; self.blocked_tasks[task_id] = task
BlockTask(f, tid, status) ==
    [f EXCEPT !.tasks[tid].status = status,
              !.blocked_tasks = @ \cup {tid}]

\* an energy gate that debits the battery although it turns the task away
EnergyGateFail_debit(f, tid, p) ==
    [BlockTask(f, tid, "blocked_energy") EXCEPT
        !.battery_charge_kwh = update_battery(@, 0 - p.energy_required)]

\* the branch of the failed energy gate
EnergyGateFail(f, tid, p) == BlockTask(f, tid, "blocked_energy")

\* transport_time of process_task: the largest distance / conveyor_speed of
\* the input transports; "storage" is not in the layout, so the distance is
\* the default 100 m and conveyor_speed is 2 m/s
TransportTime(recipe) == IF Len(recipe.inputs) > 0 THEN 100 \div 2 ELSE 0

\* an input check that asks only whether the kind is in storage, not how much
InputsShort_present(f, tid) ==
    \E i \in 1..Len(FindRecipe(f.tasks[tid].output).inputs) :
        FindRecipe(f.tasks[tid].output).inputs[i][1] \notin DOMAIN f.current_inventory

\* some input is short in storage
InputsShort(f, tid) ==
    LET task == f.tasks[tid]
        recipe == FindRecipe(task.output)
    IN  \E i \in 1..Len(recipe.inputs) :
            InvGet(f.current_inventory, recipe.inputs[i][1])
                < RequiredInput(recipe, i, task.quantity)

RECURSIVE ConsumeInputs(_, _, _, _)
\* the loop "Consume inputs" of process_task
ConsumeInputs(inv, recipe, i, quantity) ==
    IF i > Len(recipe.inputs) THEN inv
    ELSE ConsumeInputs([inv EXCEPT ![recipe.inputs[i][1]] =
                            @ - RequiredInput(recipe, i, quantity)],
                       recipe, i + 1, quantity)

\* "All checks passed - start production"
StartTask(f, tid, mid, p) ==
    LET task == f.tasks[tid]
        recipe == FindRecipe(task.output)
    IN  [f EXCEPT
          !.tasks[tid] = [@ EXCEPT
              !.status = "active",
              !.assigned_module = mid,
              !.setup_time = p.setup_time,
              !.process_time = p.process_time,
              !.completion_time = f.time + p.total_time + TransportTime(recipe),
              !.energy_consumed = p.energy_required,
              !.actual_output = p.expected_yield,
              !.waste_kind = p.waste_kind,
              !.waste_qty = p.waste_qty],
          !.module_states[mid].current_task = tid,
          !.current_inventory = ConsumeInputs(@, recipe, 1, task.quantity),
          !.battery_charge_kwh = update_battery(@, 0 - p.energy_required),
          !.active_tasks = Append(@, tid),
          !.started = Append(@, tid)]

\* a quantity of the factory (in c) as the transport system counts it
TransportQuantity(quantity) == quantity \div 100

RECURSIVE ScheduleInputs(_, _, _, _, _)
\* the loop "Check and schedule material transport" of process_task, from
\* input i on: the transport system after it
ScheduleInputs(ts, recipe, i, task, module_type) ==
    IF i > Len(recipe.inputs) THEN ts
    ELSE ScheduleInputs(
             schedule_transport(ts, "storage", module_type, recipe.inputs[i][1],
                                TransportQuantity(RequiredInput(recipe, i, task.quantity)),
                                task.priority + 10),
             recipe, i + 1, task, module_type)

\* process_task from "Check input materials (after transport)" on: f2 is
\* the factory after the transports of the inputs were scheduled
GatesAfterTransport(f2, tid, mid, p) ==
    IF InputsShort(f2, tid)
    THEN [f |-> BlockTask(f2, tid, "blocked_resources"), ok |-> FALSE]
    ELSE [f |-> StartTask(f2, tid, mid, p), ok |-> TRUE]

\* process_task from "Check thermal constraints before starting" on: f1 is
\* the factory after calculate_production_parameters returned p for module mid
GatesAfterParameters(f1, tid, mid, p, solar) ==
    IF ~p.ok
    THEN [f |-> BlockTask(f1, tid, "blocked_constraints"), ok |-> FALSE]
    ELSE IF ~check_thermal_constraints(
                calculate_module_heat_x10(f1.module_states, DOMAIN f1.module_states))
    THEN [f |-> BlockTask(f1, tid, "blocked_thermal"), ok |-> FALSE]
    ELSE IF f1.battery_charge_kwh + solar * p.total_time < p.energy_required
    THEN [f |-> EnergyGateFail(f1, tid, p), ok |-> FALSE]
    ELSE GatesAfterTransport(
             [f1 EXCEPT !.transport_system =
                  ScheduleInputs(@, FindRecipe(f1.tasks[tid].output), 1,
                                 f1.tasks[tid], f1.module_states[mid].module_type)],
             tid, mid, p)

\* process_task from the result mid of find_available_module on, p being
\* what calculate_production_parameters returns for it
GatesAfterModule(f, tid, mid, p, solar) ==
    IF mid = None
    THEN [f |-> BlockTask(f, tid, "blocked_module"), ok |-> FALSE]
    ELSE GatesAfterParameters([f EXCEPT !.module_states = p.module_states],
                              tid, mid, p, solar)

\* the module process_task asks for
RequiredModule(recipe) ==
    IF recipe.required_module = None THEN "assembly" ELSE recipe.required_module

\* process_task from the module search on
GatesAfterDependencies(f, tid, mid, q, solar) ==
    GatesAfterModule(f, tid, mid,
                     IF mid = None THEN None
                     ELSE calculate_production_parameters(f, tid, mid, q),
                     solar)

\* Factory.process_task on the popped task tid; q is the drawn quality rate
\* and solar the drawn solar generation of the energy gate.  Result: the
\* factory state after the call and the value returned.
process_task(f, tid, q, solar) ==
    IF f.tasks[tid].dependencies # {} /\ DepsIncomplete(f, tid)
    THEN [f |-> BlockTask(f, tid, "blocked_dependencies"), ok |-> FALSE]
    ELSE GatesAfterDependencies(
             f, tid,
             find_available_module(f, RequiredModule(FindRecipe(f.tasks[tid].output))),
             q, solar)

-----------------------------------------------------------------------------
(* Task completion and maintenance *)

\* ModuleState.update_condition (enable_degradation and enable_maintenance
\* on); fail is the outcome of random.random() < failure_probability.
\* Result: the module state and the condition string.
update_condition(ms, hours_operated, fail) ==
    LET spec == SpecOf(ms)
        ms1 == [ms EXCEPT !.time_since_maintenance = @ + hours_operated]
        \* current_efficiency * degradation, the loss of efficiency
        loss == (ms.current_efficiency
                    * ((spec.degradation_rate * hours_operated) \div 3600)) \div 1000000
        ms2 == [ms1 EXCEPT !.current_efficiency = Max(300, @ - loss)]
    IN  IF ~ms.is_failed /\ fail
        THEN [ms |-> [ms1 EXCEPT !.is_failed = TRUE], condition |-> "FAILED"]
        ELSE IF ms2.time_since_maintenance >= spec.maintenance_interval
        THEN [ms |-> ms2, condition |-> "MAINTENANCE_REQUIRED"]
        ELSE [ms |-> ms2, condition |-> "OPERATIONAL"]

\* Factory.schedule_maintenance (enable_maintenance on)
schedule_maintenance(ms, now) ==
    IF ~ms.is_in_maintenance
    THEN [ms EXCEPT !.is_in_maintenance = TRUE,
                    !.maintenance_end_time = now + MAINTENANCE_DURATION]
    ELSE ms

\* an update_maintenance that leaves the counter time_since_maintenance as it is
update_maintenance_nocount(f) ==
    [f EXCEPT !.module_states =
        [m \in DOMAIN @ |->
            IF @[m].is_in_maintenance /\ f.time >= @[m].maintenance_end_time
            THEN [@[m] EXCEPT !.is_in_maintenance = FALSE,
                              !.current_efficiency = Min(1000, (@ * 11) \div 10)]
            ELSE @[m]]]

\* Factory.update_maintenance
update_maintenance(f) ==
    [f EXCEPT !.module_states =
        [m \in DOMAIN @ |->
            IF @[m].is_in_maintenance /\ f.time >= @[m].maintenance_end_time
            THEN [@[m] EXCEPT !.is_in_maintenance = FALSE,
                              !.time_since_maintenance = 0,
                              !.current_efficiency = Min(1000, (@ * 11) \div 10)]
            ELSE @[m]]]

\* the kinds update_active_tasks takes for software
SoftwareKinds == {"plc_program", "robot_firmware", "ai_model", "scada_system"}

\* str(n) for a version number
VersionStr(n) ==
    CASE n = 1 -> "1" [] n = 2 -> "2" [] n = 3 -> "3" [] n = 4 -> "4" [] n = 5 -> "5"
      [] n = 6 -> "6" [] n = 7 -> "7" [] n = 8 -> "8" [] n = 9 -> "9" [] OTHER -> "10"

\* the key f"{software_type.value}_{version}" with version = f"v{n}.0"
SoftwareKey(software_type, n) == software_type \o "_v" \o VersionStr(n) \o ".0"

\* SoftwareProductionSystem.develop_software
develop_software(f, software_type) ==
    [f EXCEPT
        !.version_counter[software_type] = @ + 1,
        !.software_library =
            @ \cup {[key |-> SoftwareKey(software_type, f.version_counter[software_type] + 1),
                     type |-> software_type]}]

\* "Check if this is software" of update_active_tasks
SoftwareDeveloped(f, output) ==
    IF output \in SoftwareKinds THEN develop_software(f, output) ELSE f

\* the deposit of a completed task's output is accepted
DepositAccepted(f, tid) ==
    can_store(f.current_inventory, f.tasks[tid].output, f.tasks[tid].actual_output)

\* the bookkeeping of a task whose time has come: it is recorded as
\* completed when the deposit was accepted
RecordCompletion(f, tid, accepted) ==
    IF accepted
    THEN SoftwareDeveloped([f EXCEPT !.tasks[tid].status = "completed",
                                     !.completed_tasks = Append(@, tid),
                                     !.completed_task_ids = @ \cup {tid}],
                           f.tasks[tid].output)
    ELSE f

\* the body of the loop of update_active_tasks for a task with
\* time >= completion_time; fail is the drawn failure of its module
CompleteTask(f, tid, fail) ==
    LET task == f.tasks[tid]
        mid == task.assigned_module
        hours_operated == task.setup_time + task.process_time
        c == update_condition(f.module_states[mid], hours_operated,
                              fail /\ hours_operated > 0)
        accepted == DepositAccepted(f, tid)
        f1 == [f EXCEPT
                !.waste_inventory = IF task.waste_kind = None THEN @
                                    ELSE [@ EXCEPT ![task.waste_kind] = @ + task.waste_qty],
                !.transport_system =
                    schedule_transport(@, f.module_states[mid].module_type, "storage",
                                       task.output, TransportQuantity(task.actual_output),
                                       OUTPUT_TRANSPORT_PRIORITY),
                !.current_inventory = add_resource(@, task.output, task.actual_output)]
        f2 == RecordCompletion(f1, tid, accepted)
        ms1 == [c.ms EXCEPT !.current_task = NoTask]
        ms2 == IF c.condition = "FAILED" THEN [ms1 EXCEPT !.is_failed = TRUE]
               ELSE IF c.condition = "MAINTENANCE_REQUIRED"
               THEN schedule_maintenance(ms1, f.time)
               ELSE ms1
    IN  [f2 EXCEPT !.module_states[mid] = ms2,
                   !.completed_this_step = Append(@, tid)]

\* a completion that does not wait for completion_time
IsDue_now(f, tid) == TRUE

\* self.time >= task.completion_time
IsDue(f, tid) == f.time >= f.tasks[tid].completion_time

\* the tasks of active_tasks whose completion_time has been reached
Due(f) == { t \in Range(f.active_tasks) : IsDue(f, t) }

RECURSIVE CompleteLoop(_, _, _, _)
\* the loop of update_active_tasks over list(self.active_tasks.items()),
\* from position i of the list act
CompleteLoop(f, act, i, failset) ==
    IF i > Len(act) THEN f
    ELSE CompleteLoop(IF IsDue(f, act[i])
                      THEN CompleteTask(f, act[i], act[i] \in failset)
                      ELSE f,
                      act, i + 1, failset)

\* Factory.update_active_tasks
update_active_tasks(f, failset) ==
    LET f0 == [f EXCEPT !.completed_this_step = << >>]
        f1 == CompleteLoop(f0, f.active_tasks, 1, failset)
    IN  [f1 EXCEPT !.active_tasks =
            SelectSeq(@, LAMBDA t : t \notin Range(f1.completed_this_step))]

-----------------------------------------------------------------------------
(* Blocked task retry *)

RetryStatuses == {"blocked_module", "blocked_energy", "blocked_resources",
                  "blocked_thermal", "blocked_constraints"}

\* should_retry that treats blocked_dependencies like the other statuses
should_retry_any(f, tid) == TRUE

\* should_retry of check_blocked_tasks for the blocked task tid
should_retry(f, tid) ==
    IF f.tasks[tid].status = "blocked_dependencies"
    THEN \A dep \in f.tasks[tid].dependencies : dep \in f.completed_task_ids
    ELSE f.tasks[tid].status \in RetryStatuses

RECURSIVE RequeueAll(_, _)
\* a requeue that pushes every task of S twice
RequeueAll_twice(f, S) ==
    IF S = {} THEN f
    ELSE LET t == CHOOSE x \in S : TRUE
         IN  RequeueAll([f EXCEPT
                            !.tasks[t].status = "queued",
                            !.task_queue = heappush(heappush(@, << f.tasks[t].priority, t >>),
                                                    << f.tasks[t].priority, t >>)],
                        S \ {t})

\* heappush of every task of the set S, set to "queued"
RequeueAll(f, S) ==
    IF S = {} THEN f
    ELSE LET t == CHOOSE x \in S : TRUE
         IN  RequeueAll([f EXCEPT
                            !.tasks[t].status = "queued",
                            !.task_queue = heappush(@, << f.tasks[t].priority, t >>)],
                        S \ {t})

\* check_blocked_tasks without the final "del self.blocked_tasks[task_id]"
check_blocked_tasks_nodel(f) ==
    LET retry == { t \in f.blocked_tasks : should_retry(f, t) }
        f1 == RequeueAll(f, retry)
    IN  [f1 EXCEPT !.unblocked = { << t, f.tasks[t].status >> : t \in retry }]

\* Factory.check_blocked_tasks
check_blocked_tasks(f) ==
    LET retry == { t \in f.blocked_tasks : should_retry(f, t) }
        f1 == RequeueAll(f, retry)
    IN  [f1 EXCEPT
            !.unblocked = { << t, f.tasks[t].status >> : t \in retry },
            !.blocked_tasks = @ \ retry]

-----------------------------------------------------------------------------
(* simulate_step *)

\* the draw made for task tid (d when the task never reaches the draw)
Draw(draws, tid, d) == IF tid \in DOMAIN draws THEN draws[tid] ELSE d

\* what one process_task call did: f is the factory before the call (the
\* task popped), g the factory after it, ok the value returned
Attempt(f, g, tid, ok) ==
    [task |-> tid, ok |-> ok, status |-> g.tasks[tid].status,
     in_blocked |-> tid \in g.blocked_tasks,
     in_queue |-> tid \in QueueIds(g.task_queue),
     in_active |-> tid \in Range(g.active_tasks),
     battery_before |-> f.battery_charge_kwh,
     battery_after |-> g.battery_charge_kwh,
     storage_same |-> g.current_inventory = f.current_inventory,
     modules_same |-> g.module_states = f.module_states,
     transport_same |-> g.transport_system.transport_queue
                          = f.transport_system.transport_queue,
     overdue |-> { t \in Range(f.active_tasks) \ Range(f.started) : IsDue(f, t) }]

\* the loop variables after process_task returned r for the task tid popped
\* from f0: the factory, with the call recorded, and tasks_started
Admitted(f0, tid, r, tasks_started) ==
    [f |-> [r.f EXCEPT !.attempts = Append(@, Attempt(f0, r.f, tid, r.ok))],
     tasks_started |-> IF r.ok THEN tasks_started + 1 ELSE tasks_started]

\* the body of the admission loop: process_task on the task tid popped from f0
AdmitOne(f0, tid, tasks_started, q, solar) ==
    Admitted(f0, tid,
             process_task(f0, tid, Draw(q, tid, 100), Draw(solar, tid, 0)),
             tasks_started)

\* the admission loop for the loop variables a
RECURSIVE AdmitLoop(_, _, _, _)
AdmitAgain(a, q, solar) == AdmitLoop(a.f, a.tasks_started, q, solar)

\* the admission loop without the limit on the tasks started
AdmitLoop_nolimit(f, tasks_started, q, solar) ==
    IF Len(f.task_queue) = 0 THEN f
    ELSE AdmitAgain(AdmitOne([f EXCEPT !.task_queue = heappop_rest(@)],
                             heappop_entry(f.task_queue)[2], tasks_started, q, solar),
                    q, solar)

\* "Process new tasks": the while loop of simulate_step.  q and solar give
\* the draws of process_task for each queued task.
AdmitLoop(f, tasks_started, q, solar) ==
    IF Len(f.task_queue) = 0 \/ tasks_started >= MAX_TASK_STARTS_PER_STEP THEN f
    ELSE AdmitAgain(AdmitOne([f EXCEPT !.task_queue = heappop_rest(@)],
                             heappop_entry(f.task_queue)[2], tasks_started, q, solar),
                    q, solar)

\* net_energy of simulate_step for the drawn solar generation, kW*s
NetEnergy(f, solar_generation) ==
    LET ids == DOMAIN f.module_states
        total_consumption ==
            SumOver([m \in ids |-> get_power_consumption(f.module_states[m])], ids)
        transport_power ==
            Len(f.transport_system.active_transports) * TRANSPORT_POWER_KW_PER_ACTIVE
    IN  (solar_generation - total_consumption - transport_power) * DT
        - CoolingEnergy(calculate_module_heat_x10(f.module_states, ids))

\* int(self.time * 10) % 10 == 0 at the tick numbered n
IsCheckTick(n) == n \in CheckTicks

\* the queued tasks that can get past the dependency and module gates and
\* the tolerance and cleanroom checks in the admission of this tick: only
\* their quality draws are ever used
Candidates(f) ==
    { t \in QueueIds(f.task_queue) :
        LET recipe == FindRecipe(f.tasks[t].output)
        IN  /\ ~(f.tasks[t].dependencies # {} /\ DepsIncomplete(f, t))
            /\ SuitableModules(f, recipe.required_module) # {}
            /\ ToleranceOk(recipe, MODULE_SPECS[recipe.required_module])
            /\ CleanroomOk(recipe, MODULE_SPECS[recipe.required_module]) }

\* the candidates whose energy gate can depend on the solar estimate: with
\* a changeover, the task needs more than the reserve the battery never
\* goes below
SolarCandidates(f) ==
    { t \in Candidates(f) :
        LET mid == find_available_module(f, FindRecipe(f.tasks[t].output).required_module)
            ms == [f.module_states[mid] EXCEPT !.last_product_type = None]
            p == calculate_production_parameters(
                     [f EXCEPT !.module_states[mid] = ms], t, mid, 100)
        IN  p.energy_required > (BATTERY_CAPACITY * 20) \div 100 }

\* "Update transport system": the three calls of simulate_step.  (In the
\* runs of the factory followed here no comparison of the transport heap
\* reaches two unordered jobs, so none of the calls raises.)
TransportPass(ts) ==
    maintain_agvs(update_active_transports(process_transport_queue(ts)))

\* a step that does not complete the active tasks before the admission
simulate_step_begin_nocomplete(f, solar_generation, failset) ==
    update_maintenance([f EXCEPT !.battery_charge_kwh =
                            update_battery(@, NetEnergy(f, solar_generation)),
                                 !.transport_system = TransportPass(@)])

\* simulate_step up to and including update_maintenance
simulate_step_begin(f, solar_generation, failset) ==
    LET f1 == [f EXCEPT !.battery_charge_kwh =
                            update_battery(@, NetEnergy(f, solar_generation)),
                        !.transport_system = TransportPass(@)]
        f2 == update_active_tasks(f1, failset)
    IN  update_maintenance(f2)

\* simulate_step from "Process new tasks" on
\* "Check blocked tasks periodically" and "Advance time", f4 being the
\* factory after the admission
simulate_step_retry(f4) ==
    [(IF IsCheckTick(f4.ticks) THEN check_blocked_tasks(f4)
      ELSE [f4 EXCEPT !.unblocked = {}])
        EXCEPT !.time = @ + DT, !.ticks = @ + 1, !.cycle_error = FALSE,
               !.transport_system = LaterTick(@)]

\* simulate_step from "Process new tasks" on
simulate_step_end(f3, q, solar) ==
    simulate_step_retry(
        AdmitLoop([f3 EXCEPT !.started = << >>, !.attempts = << >>], 0, q, solar))

\* the factories simulate_step can leave from f3, the factory after
\* update_maintenance: one for each draw of the admission
Admissions(f3) ==
    { simulate_step_end(f3, q, solar) :
        q \in [Candidates(f3) -> QualityRates],
        solar \in [SolarCandidates(f3) -> SolarLevels] }

\* Factory.simulate_step(0.1)
simulate_step(f, solar_generation, failset, q, solar) ==
    simulate_step_end(simulate_step_begin(f, solar_generation, failset), q, solar)

-----------------------------------------------------------------------------
(* The resource calculation cache (performance_utils.py) *)

\* The keys (resource, quantity) and the requirements dicts used; a dict
\* {"result": n} is written n.  NoValue is None, NoKey no key.
CacheKeys == { << "A", 1 >>, << "B", 2 >>, << "C", 3 >>, << "D", 4 >> }
Requirements == {1, 2}
NoValue == 0
NoKey == << >>

\* ResourceCalculationCache.__init__.  The OrderedDict _cache is the
\* sequence of its items, first item first.  last_use, last_set, calls,
\* returned and evicted are not fields of the object: they record when a
\* key was last used (successful get, or set), what was last set for it,
\* the number of calls made, what the last get returned and which key the
\* last call removed.
NewCache(max_size) ==
    [cache |-> << >>, max_size |-> max_size, hits |-> 0, misses |-> 0,
     last_use |-> [k \in CacheKeys |-> 0], last_set |-> [k \in CacheKeys |-> NoValue],
     calls |-> 0, returned |-> NoValue, evicted |-> NoKey]

DEFAULT_MAX_SIZE == 1000
CacheIdle == resource_cache = NewCache(DEFAULT_MAX_SIZE)

\* key in self._cache
InCache(cache, key) == \E i \in 1..Len(cache) : cache[i].key = key

\* self._cache[key]
CacheValue(cache, key) == (CHOOSE item \in Range(cache) : item.key = key).value

\* an OrderedDict.move_to_end that leaves the order as it is
move_to_end_stay(cache, key) == cache

\* OrderedDict.move_to_end(key)
move_to_end(cache, key) ==
    SelectSeq(cache, LAMBDA item : item.key # key)
        \o SelectSeq(cache, LAMBDA item : item.key = key)

\* self._cache[key] = value on an OrderedDict: a present key keeps its place
SetItem(cache, key, value) ==
    IF InCache(cache, key)
    THEN [i \in 1..Len(cache) |->
             IF cache[i].key = key THEN [key |-> key, value |-> value] ELSE cache[i]]
    ELSE Append(cache, [key |-> key, value |-> value])

\* OrderedDict.popitem(last=False)
popitem_first(cache) == Tail(cache)

\* ResourceCalculationCache.get
cache_get(c, key) ==
    IF InCache(c.cache, key)
    THEN [c EXCEPT !.hits = @ + 1,
                   !.cache = move_to_end(@, key),
                   !.returned = CacheValue(c.cache, key),
                   !.evicted = NoKey,
                   !.calls = @ + 1,
                   !.last_use[key] = c.calls + 1]
    ELSE [c EXCEPT !.misses = @ + 1,
                   !.returned = NoValue,
                   !.evicted = NoKey,
                   !.calls = @ + 1]

\* the cache with room for a new item: "if len(self._cache) >= self._max_size"
WithRoom(c) ==
    IF Len(c.cache) >= c.max_size
    THEN [c EXCEPT !.cache = popitem_first(@), !.evicted = c.cache[1].key]
    ELSE [c EXCEPT !.evicted = NoKey]

\* ResourceCalculationCache.set
cache_set(c, key, requirements) ==
    IF InCache(c.cache, key)
    THEN [c EXCEPT !.cache = move_to_end(SetItem(@, key, requirements), key),
                   !.evicted = NoKey,
                   !.calls = @ + 1,
                   !.last_use[key] = c.calls + 1,
                   !.last_set[key] = requirements]
    ELSE [WithRoom(c) EXCEPT !.cache = SetItem(@, key, requirements),
                             !.calls = @ + 1,
                             !.last_use[key] = c.calls + 1,
                             !.last_set[key] = requirements]

-----------------------------------------------------------------------------
(* The event bus (modular_framework.py) *)

CUSTOM == "custom"

\* what is done with a bus that is left alone
NoBusCalls ==
    [max_history |-> 1000, max_queue_size |-> 10000, types |-> {}, handlers |-> {},
     publishes |-> 0, subscriptions |-> 0]

\* EventBus.__init__.  An Event is its type and the serial number of the
\* publish call it was passed to.  published, subscribed, raised, last_call
\* and invoked are not fields of the object: the numbers of publish and
\* subscribe calls made, whether the last call raised
\* EventQueueOverflowError, which call it was, and the handler invocations
\* (handler, event) of the last process_events in the order made.
NewEventBus(calls) ==
    [subscribers |-> [t \in calls.types \cup {CUSTOM} |-> << >>],
     event_queue |-> << >>, event_history |-> << >>,
     max_history |-> calls.max_history, max_queue_size |-> calls.max_queue_size,
     dropped_events |-> 0,
     published |-> 0, subscribed |-> 0, raised |-> FALSE, last_call |-> "none",
     invoked |-> << >>, calls |-> calls]

BusIdle == event_bus = NewEventBus(NoBusCalls)

\* EventBus.subscribe
subscribe(bus, event_type, handler) ==
    [bus EXCEPT !.subscribers[event_type] = Append(@, handler),
                !.subscribed = @ + 1, !.raised = FALSE, !.last_call = "subscribe"]

\* list.remove: the list without the first occurrence of x
RemoveFirst(list, x) ==
    LET i == CHOOSE j \in 1..Len(list) :
                 list[j] = x /\ \A k \in 1..(j - 1) : list[k] # x
    IN  SubSeq(list, 1, i - 1) \o SubSeq(list, i + 1, Len(list))

\* EventBus.unsubscribe
unsubscribe(bus, event_type, handler) ==
    [bus EXCEPT !.subscribers[event_type] =
                    IF handler \in Range(@) THEN RemoveFirst(@, handler) ELSE @,
                !.raised = FALSE, !.last_call = "unsubscribe"]

\* Queue.put_nowait raises Full
QueueFull(bus) ==
    bus.max_queue_size > 0 /\ Len(bus.event_queue) >= bus.max_queue_size

\* deque(maxlen=max_history).append
DequeAppend(history, maxlen, event) ==
    IF maxlen = 0 THEN history
    ELSE IF Len(history) >= maxlen THEN Append(Tail(history), event)
    ELSE Append(history, event)

\* a threshold reached as soon as the drops are 10% of the queue size
Critical_reached(dropped_events, max_queue_size) ==
    dropped_events * 10 >= max_queue_size

\* "self.dropped_events > self.max_queue_size * 0.1"
Critical(dropped_events, max_queue_size) ==
    dropped_events * 10 > max_queue_size

\* EventBus.publish
publish(bus, event) ==
    IF ~QueueFull(bus)
    THEN [bus EXCEPT !.event_queue = Append(@, event),
                     !.event_history = DequeAppend(@, bus.max_history, event),
                     !.published = @ + 1, !.raised = FALSE, !.last_call = "publish"]
    ELSE [bus EXCEPT !.dropped_events = @ + 1,
                     !.raised = Critical(bus.dropped_events + 1, bus.max_queue_size),
                     !.published = @ + 1, !.last_call = "publish"]

\* the handler calls process_events makes for one event: the handlers of
\* its type, then the handlers of CUSTOM; a handler that raises is logged
Invocations(bus, event) ==
    [i \in 1..Len(bus.subscribers[event.type]) |->
        << bus.subscribers[event.type][i], event.uid >>]
    \o [i \in 1..Len(bus.subscribers[CUSTOM]) |->
        << bus.subscribers[CUSTOM][i], event.uid >>]

\* the handler calls made for the first n events of the queue
RECURSIVE InvocationsUpTo(_, _)
InvocationsUpTo(bus, n) ==
    IF n = 0 THEN << >>
    ELSE InvocationsUpTo(bus, n - 1) \o Invocations(bus, bus.event_queue[n])

\* EventBus.process_events
process_events(bus) ==
    [bus EXCEPT !.invoked = InvocationsUpTo(bus, Len(bus.event_queue)),
                !.event_queue = << >>,
                !.raised = FALSE, !.last_call = "process"]

-----------------------------------------------------------------------------
(* The subsystem orchestrator (modular_framework.py) *)

SubsystemNames == { "sub1", "sub2", "sub3", "sub4" }

\* SubsystemOrchestrator.__init__.  The dict subsystems is the sequence of
\* its keys in insertion order; dependencies[name] is empty for a name
\* without an entry.  raised says whether the last call raised ValueError.
NewOrchestrator ==
    [subsystems |-> << >>, update_order |-> << >>,
     dependencies |-> [name \in SubsystemNames |-> {}], raised |-> FALSE]

OrchestratorIdle == orchestrator = NewOrchestrator

\* the orders in which a set can be iterated
Orderings(S) ==
    { seq \in [1..Cardinality(S) -> S] : \A x \in S : \E i \in DOMAIN seq : seq[i] = x }

\* an order.append(name) that puts the name in front
AppendName_front(st, name) == [st EXCEPT !.order = << name >> \o @]

\* order.append(name)
AppendName(st, name) == [st EXCEPT !.order = Append(@, name)]

\* visited.add(name)
Mark(st, name) == [st EXCEPT !.visited = @ \cup {name}]

\* the dependencies of name that visit goes into, in iteration order
DepsToVisit(o, deps) == SelectSeq(deps, LAMBDA dep : dep \in Range(o.subsystems))

RECURSIVE visit(_, _, _, _)

\* "for dep in self.dependencies.get(name, [])" of visit, and "for name in
\* self.subsystems" of _rebuild_update_order
RECURSIVE VisitAll(_, _, _, _)
VisitAll(o, st, names, iteration) ==
    IF names = << >> THEN st
    ELSE VisitAll(o, visit(o, st, Head(names), iteration), Tail(names), iteration)

\* the local function visit of _rebuild_update_order; st is (visited, order)
visit(o, st, name, iteration) ==
    IF name \in st.visited THEN st
    ELSE AppendName(VisitAll(o, Mark(st, name), DepsToVisit(o, iteration[name]),
                             iteration),
                    name)

\* SubsystemOrchestrator._rebuild_update_order, the dependency sets being
\* iterated in the given orders
rebuild_update_order(o, iteration) ==
    [o EXCEPT !.update_order =
        VisitAll(o, [visited |-> {}, order |-> << >>], o.subsystems, iteration).order]

\* SubsystemOrchestrator.register_subsystem
register_subsystem(o, name, dependencies, iteration) ==
    IF name \in Range(o.subsystems) THEN [o EXCEPT !.raised = TRUE]
    ELSE rebuild_update_order(
             [o EXCEPT !.subsystems = Append(@, name),
                       !.dependencies[name] =
                           IF dependencies # {} THEN dependencies ELSE @,
                       !.raised = FALSE],
             iteration)

\* SubsystemOrchestrator.unregister_subsystem
unregister_subsystem(o, name, iteration) ==
    IF name \notin Range(o.subsystems) THEN [o EXCEPT !.raised = FALSE]
    ELSE rebuild_update_order(
             [o EXCEPT !.subsystems = SelectSeq(@, LAMBDA n : n # name),
                       !.dependencies[name] = {},
                       !.raised = FALSE],
             iteration)

-----------------------------------------------------------------------------
(* The state machine *)

Cur ==
    [time |-> time, ticks |-> ticks, task_counter |-> task_counter, tasks |-> tasks,
     task_queue |-> task_queue, active_tasks |-> active_tasks,
     blocked_tasks |-> blocked_tasks, completed_tasks |-> completed_tasks,
     completed_task_ids |-> completed_task_ids, module_states |-> module_states,
     current_inventory |-> current_inventory, waste_inventory |-> waste_inventory,
     battery_charge_kwh |-> battery_charge_kwh, started |-> started,
     completed_this_step |-> completed_this_step, unblocked |-> unblocked,
     cycle_error |-> cycle_error, attempts |-> attempts,
     target_modules |-> target_modules, max_hours |-> max_hours,
     run_status |-> run_status, last_report |-> last_report,
     software_library |-> software_library, version_counter |-> version_counter,
     requested |-> requested, transport_system |-> transport_system]

Becomes(f) ==
    /\ time' = f.time
    /\ ticks' = f.ticks
    /\ task_counter' = f.task_counter
    /\ tasks' = f.tasks
    /\ task_queue' = f.task_queue
    /\ active_tasks' = f.active_tasks
    /\ blocked_tasks' = f.blocked_tasks
    /\ completed_tasks' = f.completed_tasks
    /\ completed_task_ids' = f.completed_task_ids
    /\ module_states' = f.module_states
    /\ current_inventory' = f.current_inventory
    /\ waste_inventory' = f.waste_inventory
    /\ battery_charge_kwh' = f.battery_charge_kwh
    /\ started' = f.started
    /\ completed_this_step' = f.completed_this_step
    /\ unblocked' = f.unblocked
    /\ cycle_error' = f.cycle_error
    /\ attempts' = f.attempts
    /\ target_modules' = f.target_modules
    /\ max_hours' = f.max_hours
    /\ run_status' = f.run_status
    /\ last_report' = f.last_report
    /\ software_library' = f.software_library
    /\ version_counter' = f.version_counter
    /\ requested' = f.requested
    /\ transport_system' = f.transport_system
    /\ UNCHANGED << resource_cache, event_bus, orchestrator >>

\* ModuleState(module_id, module_type, spec) as built by initialize_modules
InitialModuleState(m) ==
    [module_type |-> ModuleTypeOf(m), time_since_maintenance |-> 0,
     current_efficiency |-> 1000, is_failed |-> FALSE,
     is_in_maintenance |-> FALSE, maintenance_end_time |-> 0,
     current_task |-> NoTask, last_product_type |-> None]

\* the stock the storage is seeded with
InitialInventories == { << >>, [r \in {"iron_ore"} |-> 7000] }

\* the calls create_production_task(output, quantity, priority) made from outside
GoalRequests == { << "steel_beam", 40 >>, << "steel", 400 >>, << "iron_ore", 6500 >> }
Priorities == {1}

\* the request sets of the other modelled runs: the cyclic recipes next to
\* a steel order; the
\* cleanroom recipes; the tolerance recipes; the furnace next to a mining
\* task; the kit
CycleRequests == { << "loop_a", 100 >>, << "par_p", 100 >>, << "steel", 400 >> }
CleanroomRequests == { << "wafer", 1000 >>, << "chip", 1000 >> }
ToleranceRequests == { << "gauge", 100 >>, << "lens", 1000 >> }
FurnaceRequests == { << "melt", 100 >>, << "side_b", 100 >> }
KitRequests == { << "kit", 100 >> }
\* two orders of which the second is placed while the factory runs: steel
\* and the beams made of it; software and again the same software
RecycleRequests == { << "steel", 400 >>, << "steel_beam", 40 >> }
SoftwareRequests == { << "robot_firmware", 100 >> }
\* the diamond, and its two sides as orders of their own
DiamondRequests == { << "truss", 100 >>, << "strut", 100 >>, << "brace", 100 >> }
\* two orders made on different modules of the same input
SharedInputRequests == { << "strut", 100 >>, << "brace", 100 >> }
\* an order whose recipe has an input without a recipe
OrphanRequests == { << "casing", 100 >> }
\* the number of ticks after which orders are still placed in a run
LateOrders(requests) ==
    IF requests \in {RecycleRequests, SoftwareRequests} THEN 3 ELSE 0
\* the runs: the requests and the time given (max_hours of run_simulation)
Runs == { << GoalRequests, MaxTicks >>, << CycleRequests, 2 >>,
          << CleanroomRequests, 3 >>,
          << ToleranceRequests, 3 >>, << FurnaceRequests, 4 >>, << KitRequests, 2 >>,
          << RecycleRequests, 5 >>, << SoftwareRequests, 5 >>, << DiamondRequests, 2 >>,
          << OrphanRequests, 12 >>, << SharedInputRequests, 13 >> }

\* the factory after Factory.__init__
Constructed ==
    /\ time = 0
    /\ ticks = 0
    /\ task_counter = 0
    /\ tasks = << >>
    /\ task_queue = << >>
    /\ active_tasks = << >>
    /\ blocked_tasks = {}
    /\ completed_tasks = << >>
    /\ completed_task_ids = {}
    /\ module_states = [m \in ModuleIds |-> InitialModuleState(m)]
    /\ current_inventory \in InitialInventories
    /\ waste_inventory = [r \in Kinds |-> 0]
    /\ battery_charge_kwh = BATTERY_CAPACITY \div 2
    /\ started = << >>
    /\ completed_this_step = << >>
    /\ unblocked = {}
    /\ cycle_error = FALSE
    /\ attempts = << >>
    /\ last_report = 0
    /\ software_library = {}
    /\ version_counter = [k \in SoftwareKinds |-> 0]
    /\ requested = None

Init ==
    /\ Constructed
    /\ run_status = "none"
    /\ \E run \in Runs : target_modules = run[1] /\ max_hours = run[2]
    /\ TransportIdle
    /\ CacheIdle
    /\ BusIdle
    /\ OrchestratorIdle

\* the factory after a call from outside returned r, with what the call
\* was for and whether it raised
Requested(r, output) == [r.f EXCEPT !.cycle_error = r.raised, !.requested = output]

\* a call create_production_task(output, quantity, priority) from outside
CreateProductionTask ==
    /\ task_counter < MaxTasks
    /\ ticks <= MaxCreateTick + LateOrders(target_modules)
    /\ \E g \in target_modules, priority \in Priorities :
         Becomes(Requested(create_production_task(Cur, g[1], g[2], priority, {}), g[1]))

\* the draws of module failures the model follows: the sets of completing
\* tasks whose module fails, as long as at most MaxFailures modules are down
FailureDraws(f) ==
    { S \in SUBSET Due(f) :
        Cardinality(S) + Cardinality({ m \in DOMAIN f.module_states :
                                         f.module_states[m].is_failed }) <= MaxFailures }

\* one iteration of the main loop of run_simulation
SimulateStep ==
    /\ ticks < MaxTicks
    /\ ticks < max_hours
    /\ \E solar_generation \in SolarLevels, failset \in FailureDraws(Cur) :
         \E g \in Admissions(simulate_step_begin(Cur, solar_generation, failset)) :
             Becomes(g)

Next == CreateProductionTask \/ SimulateStep

Spec == Init /\ [][Next]_vars

-----------------------------------------------------------------------------
(* run_simulation *)

\* the runs of run_simulation followed: the target modules and max_hours as
\* the number of iterations "while self.time < max_hours" allows (500 for
\* 50.0, 1501 for 150.0, the time being accumulated in double precision)
DeadlockRequests == { << "gadget", 100 >> }
\* two orders for the one press, run for 10 hours
PressRequests == { << "stamp", 100 >>, << "plate", 100 >> }
SimulationRuns == { << DeadlockRequests, 500 >>, << DeadlockRequests, 1501 >>,
                    << PressRequests, 100 >> }

\* "self.time - last_report >= PROGRESS_REPORT_INTERVAL_HOURS" after the
\* n-th simulate_step: from last_report = 0 it first holds for n = 1001
\* (time 100.0999...), when last_report becomes that time
ReportDue(last, n) == last = 0 /\ n >= 1001

RECURSIVE CreateTargets(_, _)
\* "for module in module_types: self.create_production_task(module, 1, priority=1)"
CreateTargets(f, S) ==
    IF S = {} THEN f
    ELSE LET g == CHOOSE x \in S : TRUE
             r == create_production_task(f, g[1], g[2], 1, {})
         IN  CreateTargets(r.f, S \ {g})

\* all(any(t.output == module and t.status == "completed" ...) for module in module_types)
module_tasks_complete(f) ==
    \A g \in f.target_modules :
        \E i \in 1..Len(f.completed_tasks) :
            /\ f.tasks[f.completed_tasks[i]].output = g[1]
            /\ f.tasks[f.completed_tasks[i]].status = "completed"

\* "Check if stuck"
is_stuck(f) ==
    /\ Len(f.active_tasks) = 0
    /\ Len(f.task_queue) = 0
    /\ Cardinality(f.blocked_tasks) > 0

\* blocked_reasons[reason] of the stuck diagnostic
blocked_reasons(reason) ==
    Cardinality({ t \in blocked_tasks : tasks[t].status = reason })

\* the progress report made after a simulate_step, with its two breaks
progress_report(f) ==
    IF ~ReportDue(f.last_report, f.ticks) THEN f
    ELSE LET f1 == [f EXCEPT !.last_report = f.ticks]
         IN  IF module_tasks_complete(f1) THEN [f1 EXCEPT !.run_status = "complete"]
             ELSE IF is_stuck(f1) THEN [f1 EXCEPT !.run_status = "stuck"]
             ELSE f1

RunInit ==
    /\ Constructed
    /\ run_status = "new"
    /\ \E run \in SimulationRuns : target_modules = run[1] /\ max_hours = run[2]
    /\ TransportIdle
    /\ CacheIdle
    /\ BusIdle
    /\ OrchestratorIdle

\* run_simulation up to the main loop
RunStart ==
    /\ run_status = "new"
    /\ Becomes([CreateTargets(Cur, target_modules) EXCEPT !.run_status = "running"])

\* one iteration of "while self.time < max_hours"
RunIterate ==
    /\ run_status = "running"
    /\ ticks < max_hours
    /\ \E solar_generation \in SolarLevels, failset \in FailureDraws(Cur) :
         \E g \in Admissions(simulate_step_begin(Cur, solar_generation, failset)) :
             Becomes(progress_report(g))

\* the loop ends because the time is up
RunTimeUp ==
    /\ run_status = "running"
    /\ ~(ticks < max_hours)
    /\ Becomes([Cur EXCEPT !.run_status = "time_up"])

RunNext == RunStart \/ RunIterate \/ RunTimeUp

RunSpec == RunInit /\ [][RunNext]_vars

-----------------------------------------------------------------------------
(* The transport system as a state machine *)

\* the transport systems followed: the fleet size of the configuration, the
\* quantities and priorities of the schedule_transport calls, their number,
\* and the number of transport passes after which calls are still made.
\* The last has small jobs enough to fill the conveyor to 0.8.
MixedCalls ==
    [agv_fleet_size |-> 2, loads |-> {50, 2000}, priorities |-> {11, 50},
     jobs |-> MaxJobs, window |-> MaxPasses]

TransportRuns ==
    { [agv_fleet_size |-> 25, loads |-> {2000}, priorities |-> {50}, jobs |-> 25,
       window |-> 0],
      MixedCalls,
      [agv_fleet_size |-> 1, loads |-> {500}, priorities |-> {50}, jobs |-> 9,
       window |-> 0],
      [agv_fleet_size |-> 2, loads |-> {90}, priorities |-> {50}, jobs |-> 11,
       window |-> 2] }

\* the factory is constructed and left alone
FactoryIdle ==
    /\ Constructed
    /\ current_inventory = << >>
    /\ run_status = "none"
    /\ target_modules = {}
    /\ max_hours = 0

TransportInit ==
    /\ FactoryIdle
    /\ CacheIdle
    /\ BusIdle
    /\ OrchestratorIdle
    /\ \E run \in TransportRuns :
         transport_system = NewTransportSystem(run.agv_fleet_size, run, run.jobs)

\* a call schedule_transport("storage", module_type, resource, quantity, priority)
\* made by process_task or update_active_tasks between two transport passes
ScheduleTransport ==
    /\ transport_system.phase = "process"
    /\ ~transport_system.raised
    /\ transport_system.scheduled < transport_system.jobs
    /\ transport_system.passes <= transport_system.calls.window
    /\ \E quantity \in transport_system.calls.loads,
          priority \in transport_system.calls.priorities :
         transport_system' =
             schedule_transport(transport_system, "storage", "refining", "steel",
                                quantity, priority)
    /\ UNCHANGED << factory_vars, resource_cache, event_bus, orchestrator >>

\* simulate_step: self.transport_system.process_transport_queue(self.time)
ProcessTransportQueue ==
    /\ transport_system.phase = "process"
    /\ ~transport_system.raised
    /\ transport_system' =
           [process_transport_queue(transport_system) EXCEPT
               !.phase = "update",
               !.passes = Min(@ + 1, transport_system.calls.window + 1)]
    /\ UNCHANGED << factory_vars, resource_cache, event_bus, orchestrator >>

\* simulate_step: self.transport_system.update_active_transports(self.time)
UpdateActiveTransports ==
    /\ transport_system.phase = "update"
    /\ ~transport_system.raised
    /\ transport_system' =
           [update_active_transports(transport_system) EXCEPT !.phase = "maintain"]
    /\ UNCHANGED << factory_vars, resource_cache, event_bus, orchestrator >>

\* simulate_step: self.transport_system.maintain_agvs(self.time), and the
\* rest of the step, which ends with the time advanced
MaintainAgvs ==
    /\ transport_system.phase = "maintain"
    /\ transport_system' =
           [LaterTick(maintain_agvs(transport_system)) EXCEPT !.phase = "process"]
    /\ UNCHANGED << factory_vars, resource_cache, event_bus, orchestrator >>

TransportNext ==
    ScheduleTransport \/ ProcessTransportQueue \/ UpdateActiveTransports \/ MaintainAgvs

TransportSpec == TransportInit /\ [][TransportNext]_vars

\* the transport system of a factory whose main loop keeps running:
\* simulate_step makes the three transport calls in every iteration
LiveCalls ==
    [agv_fleet_size |-> 2, loads |-> {50, 2000}, priorities |-> {50},
     jobs |-> MaxLiveJobs, window |-> MaxPasses]

TransportLiveInit ==
    /\ FactoryIdle
    /\ CacheIdle
    /\ BusIdle
    /\ OrchestratorIdle
    /\ transport_system = NewTransportSystem(LiveCalls.agv_fleet_size, LiveCalls,
                                             LiveCalls.jobs)

TransportLiveSpec ==
    /\ TransportLiveInit
    /\ [][TransportNext]_vars
    /\ WF_vars(ProcessTransportQueue)
    /\ WF_vars(UpdateActiveTransports)
    /\ WF_vars(MaintainAgvs)

-----------------------------------------------------------------------------
(* The cache as a state machine *)

CacheSizes == 1..MaxCacheSize

CacheInit ==
    /\ FactoryIdle
    /\ TransportIdle
    /\ BusIdle
    /\ OrchestratorIdle
    /\ \E max_size \in CacheSizes : resource_cache = NewCache(max_size)

CacheGet ==
    /\ resource_cache.calls < MaxCacheCalls
    /\ \E key \in CacheKeys : resource_cache' = cache_get(resource_cache, key)
    /\ UNCHANGED << factory_vars, transport_system, event_bus, orchestrator >>

CacheSet ==
    /\ resource_cache.calls < MaxCacheCalls
    /\ \E key \in CacheKeys, requirements \in Requirements :
         resource_cache' = cache_set(resource_cache, key, requirements)
    /\ UNCHANGED << factory_vars, transport_system, event_bus, orchestrator >>

CacheNext == CacheGet \/ CacheSet

CacheSpec == CacheInit /\ [][CacheNext]_vars

-----------------------------------------------------------------------------
(* The event bus as a state machine *)

\* the buses followed: a queue of ten events that is overrun; a small bus
\* with two handlers, one of which raises in every call, and two event
\* types; an unbounded queue
BusRuns ==
    { [max_history |-> 1000, max_queue_size |-> 10, types |-> {"task_completed"},
       handlers |-> {}, publishes |-> 10 + MaxDrops, subscriptions |-> 0],
      [max_history |-> 2, max_queue_size |-> 2,
       types |-> {"task_completed", CUSTOM},
       handlers |-> {"handler1", "raising_handler"},
       publishes |-> MaxPublishes, subscriptions |-> MaxSubscriptions],
      [max_history |-> 0, max_queue_size |-> 0, types |-> {"module_created"},
       handlers |-> {"handler1"}, publishes |-> MaxPublishes,
       subscriptions |-> 1] }

BusInit ==
    /\ FactoryIdle
    /\ TransportIdle
    /\ CacheIdle
    /\ OrchestratorIdle
    /\ \E run \in BusRuns : event_bus = NewEventBus(run)

Subscribe ==
    /\ event_bus.subscribed < event_bus.calls.subscriptions
    /\ \E event_type \in event_bus.calls.types, handler \in event_bus.calls.handlers :
         event_bus' = subscribe(event_bus, event_type, handler)
    /\ UNCHANGED << factory_vars, transport_system, resource_cache, orchestrator >>

Unsubscribe ==
    /\ \E event_type \in event_bus.calls.types, handler \in event_bus.calls.handlers :
         event_bus' = unsubscribe(event_bus, event_type, handler)
    /\ UNCHANGED << factory_vars, transport_system, resource_cache, orchestrator >>

Publish ==
    /\ event_bus.published < event_bus.calls.publishes
    /\ \E event_type \in event_bus.calls.types :
         event_bus' = publish(event_bus, [type |-> event_type,
                                          uid |-> event_bus.published + 1])
    /\ UNCHANGED << factory_vars, transport_system, resource_cache, orchestrator >>

ProcessEvents ==
    /\ event_bus' = process_events(event_bus)
    /\ UNCHANGED << factory_vars, transport_system, resource_cache, orchestrator >>

BusNext == Subscribe \/ Unsubscribe \/ Publish \/ ProcessEvents

BusSpec == BusInit /\ [][BusNext]_vars

-----------------------------------------------------------------------------
(* The orchestrator as a state machine *)

OrchestratorInit ==
    /\ FactoryIdle
    /\ TransportIdle
    /\ CacheIdle
    /\ BusIdle
    /\ orchestrator = NewOrchestrator

\* the iteration orders a call can meet: one order for each dependency set
RECURSIVE IterationsFor(_, _)
IterationsFor(o, names) ==
    IF names = {} THEN { << >> }
    ELSE LET n == CHOOSE x \in names : TRUE
         IN  { (n :> ord) @@ rest : ord \in Orderings(o.dependencies[n]),
                                    rest \in IterationsFor(o, names \ {n}) }

IterationsOf(o) == IterationsFor(o, SubsystemNames)

\* the dependency lists the subsystems are registered with: none; the chain
\* sub1, sub2, sub3; the diamond of sub1 over sub2 and sub3 over sub4; and
\* lists that close a cycle
DependencyLists(name) ==
    CASE name = "sub1" -> { {}, {"sub2", "sub3"} }
      [] name = "sub2" -> { {}, {"sub1"}, {"sub4"} }
      [] name = "sub3" -> { {}, {"sub2"}, {"sub4"} }
      [] name = "sub4" -> { {}, {"sub1"} }

RegisterSubsystem ==
    /\ \E name \in SubsystemNames, dependencies \in SUBSET SubsystemNames :
         /\ dependencies \in DependencyLists(name)
         /\ \E it \in IterationsOf([orchestrator EXCEPT !.dependencies[name] =
                                      IF dependencies # {} THEN dependencies ELSE @]) :
              orchestrator' = register_subsystem(orchestrator, name, dependencies, it)
    /\ UNCHANGED << factory_vars, transport_system, resource_cache, event_bus >>

UnregisterSubsystem ==
    /\ \E name \in SubsystemNames, it \in IterationsOf(orchestrator) :
         orchestrator' = unregister_subsystem(orchestrator, name, it)
    /\ UNCHANGED << factory_vars, transport_system, resource_cache, event_bus >>

OrchestratorNext == RegisterSubsystem \/ UnregisterSubsystem

OrchestratorSpec == OrchestratorInit /\ [][OrchestratorNext]_vars

-----------------------------------------------------------------------------
(* Properties *)

TaskKey(t) == << tasks[t].priority, t >>

\* C1: every task that process_task moved from queued to active in the last
\* tick has all its dependencies in completed_task_ids, and each of them is
\* the id of a task of completed_tasks.
C1_DependencyGate ==
    \A i \in 1..Len(started) :
        /\ tasks[started[i]].dependencies \subseteq completed_task_ids
        /\ tasks[started[i]].dependencies \subseteq Range(completed_tasks)

\* a task with dependencies has been started
C1_Witness ==
    \E i \in 1..Len(started) : tasks[started[i]].dependencies # {}

\* C2: no task id is in active_tasks and blocked_tasks at once, nor in
\* active_tasks and the priority queue at once.
C2_Disjoint ==
    /\ Range(active_tasks) \cap blocked_tasks = {}
    /\ Range(active_tasks) \cap QueueIds(task_queue) = {}

\* tasks are active, blocked and queued at the same time, right after a retry
\* pass has moved tasks from blocked_tasks back to the queue
C2_Witness ==
    /\ active_tasks # << >>
    /\ blocked_tasks # {}
    /\ task_queue # << >>
    /\ unblocked # {}

\* C3: of two tasks started in the same tick the one with the smaller
\* (priority, task_id) key was started first.
C3_PriorityOrder ==
    \A i, j \in 1..Len(started) :
        i < j => EntryLess(TaskKey(started[i]), TaskKey(started[j]))

\* two tasks started in one tick, the later created one first because of
\* its priority
C3_Witness ==
    /\ Len(started) >= 2
    /\ started[1] > started[2]
    /\ tasks[started[1]].priority < tasks[started[2]].priority

\* C4: a create_production_task call that raises the cycle error leaves the
\* priority queue as it was before the call.
C4_CycleAtomic == [][cycle_error' => task_queue' = task_queue]_vars

\* C5: the battery charge stays within 20% and 95% of the capacity.
C5_BatteryBounds ==
    /\ 20 * BATTERY_CAPACITY <= 100 * battery_charge_kwh
    /\ 100 * battery_charge_kwh <= 95 * BATTERY_CAPACITY

\* a task was started in a tick that left the battery at its reserve
C5_Witness ==
    /\ started # << >>
    /\ 100 * battery_charge_kwh = 20 * BATTERY_CAPACITY

\* C6: with storage limits enabled the stored volume and weight stay within
\* the caps.
C6_StorageCaps ==
    STORAGE_ENABLED =>
        /\ CurrentVolumeX40(current_inventory) <= 40 * TOTAL_VOLUME_M3
        /\ CurrentWeight(current_inventory) <= TOTAL_WEIGHT_CAPACITY_TONS

\* a task finished whose output did not fit and was turned away
C6_Witness ==
    \E i \in 1..Len(completed_this_step) :
        /\ completed_this_step[i] \notin completed_task_ids
        /\ CurrentWeight(current_inventory) + tasks[completed_this_step[i]].actual_output
               > TOTAL_WEIGHT_CAPACITY_TONS

\* C7: every completed task has 0.5 * quantity <= actual_output <= quantity.
C7_QualityClamp ==
    \A i \in 1..Len(completed_tasks) :
        LET T == tasks[completed_tasks[i]]
        IN  /\ 50 * T.quantity <= 100 * T.actual_output
            /\ T.actual_output <= T.quantity

\* C8: every task that reached its completion_time in the last tick is in
\* completed_tasks and in completed_task_ids.
C8_CompletionRecorded ==
    \A i \in 1..Len(completed_this_step) :
        /\ completed_this_step[i] \in completed_task_ids
        /\ completed_this_step[i] \in Range(completed_tasks)

\* C9: a task that check_blocked_tasks took out of blocked_tasks with status
\* blocked_dependencies has all its dependencies in completed_task_ids.
C9_DepsStayBlocked ==
    \A u \in unblocked :
        u[2] = "blocked_dependencies" =>
            tasks[u[1]].dependencies \subseteq completed_task_ids

\* a dependency-blocked task was requeued by the last retry pass, while
\* another one stayed blocked
C9_Witness ==
    /\ \E u \in unblocked : u[2] = "blocked_dependencies"
    /\ \E t \in blocked_tasks : tasks[t].status = "blocked_dependencies"

\* C10: a dependent task of a chain waits (queued, then blocked_dependencies)
\* until its dependency tasks have completed, and after they have completed
\* it becomes active: the resource gate does not turn it away for want of
\* the input its dependency was created to produce.
C10_ChainActivates ==
    \A t \in DOMAIN tasks :
        tasks[t].dependencies # {} =>
            IF tasks[t].dependencies \subseteq completed_task_ids
            THEN tasks[t].status # "blocked_resources"
            ELSE tasks[t].status \in {"queued", "blocked_dependencies"}

BlockedStatuses == {"blocked_dependencies", "blocked_module", "blocked_constraints",
                    "blocked_thermal", "blocked_energy", "blocked_resources"}

\* the recipe and the module kind of task t
RecipeOf(t) == FindRecipe(tasks[t].output)
KindSpecOf(t) == MODULE_SPECS[RecipeOf(t).required_module]

\* the process_task calls of the last tick
Attempts == { attempts[i] : i \in 1..Len(attempts) }

\* C12: whenever process_task returns False the task has a blocked_* status
\* that names the gate that failed, it is in blocked_tasks and it is neither
\* in the priority queue nor in active_tasks.
C12_GateRouting ==
    \A a \in Attempts :
        ~a.ok =>
            /\ a.status \in BlockedStatuses
            /\ a.in_blocked /\ ~a.in_queue /\ ~a.in_active
            /\ a.status = "blocked_dependencies" =>
                   ~(tasks[a.task].dependencies \subseteq completed_task_ids)
            /\ a.status = "blocked_constraints" =>
                   \/ ~ToleranceOk(RecipeOf(a.task), KindSpecOf(a.task))
                   \/ ~CleanroomOk(RecipeOf(a.task), KindSpecOf(a.task))

\* in one tick tasks were turned away by two different gates
C12_Witness ==
    \E a, b \in Attempts :
        /\ ~a.ok /\ ~b.ok
        /\ a.status = "blocked_constraints"
        /\ b.status \in {"blocked_module", "blocked_energy"}

\* C13: a task turned away by the energy gate is blocked_energy and in
\* blocked_tasks, and the storage inventory and the battery charge after
\* process_task are what they were before it.
C13_EnergyStarvation ==
    \A a \in Attempts :
        a.status = "blocked_energy" =>
            /\ ~a.ok /\ a.in_blocked
            /\ a.storage_same
            /\ a.battery_after = a.battery_before

\* a task is turned away by the energy gate again on its retry, with the
\* battery above its reserve
C13_Witness ==
    \E a \in Attempts :
        /\ a.status = "blocked_energy"
        /\ ticks > 1
        /\ 100 * a.battery_before > 20 * BATTERY_CAPACITY

C15_ToleranceGate ==
    \A t \in DOMAIN tasks :
        (RecipeOf(t).tolerance_um # 0 /\ tasks[t].status \in {"active", "completed"})
            => /\ KindSpecOf(t).tolerance_capability # 0
               /\ KindSpecOf(t).tolerance_capability <= RecipeOf(t).tolerance_um

ActiveHeld ==
    \A t \in Range(active_tasks) :
        /\ tasks[t].status = "active"
        /\ module_states[tasks[t].assigned_module].current_task = t

\* C18: an active task stays in active_tasks, its module holding it as
\* current_task, and leaves active_tasks only in a tick whose time has
\* reached its completion_time.
C18_NoCancellation ==
    /\ []ActiveHeld
    /\ [][\A t \in Range(active_tasks) :
             t \notin Range(active_tasks') => time >= tasks[t].completion_time]_vars

\* a task started in an earlier tick is still running
C18_Witness ==
    \E t \in Range(active_tasks) :
        /\ t \notin Range(started)
        /\ time < tasks[t].completion_time

\* C19: a task that passes all gates reduces the battery charge by its
\* energy_required, the value recorded as energy_consumed.
C19_EnergyDebit ==
    \A a \in Attempts :
        a.ok => a.battery_before - a.battery_after = tasks[a.task].energy_consumed

\* C20: a task is started only if the cooling is feasible for the module
\* set with its module at active power; after the last start of a tick the
\* modules are that projected set.
C20_ThermalProjected ==
    started # << >> =>
        check_thermal_constraints(
            calculate_module_heat_x10(module_states, DOMAIN module_states))

\* the module kind task t needs has no instance
NoModuleFor(t) ==
    \A m \in DOMAIN module_states :
        module_states[m].module_type # RecipeOf(t).required_module

\* the run has left the main loop
RunEnded == run_status \in {"complete", "stuck", "time_up"}

\* C11: a task that needs a module kind without an instance is
\* blocked_module after every admission pass and never active, and the run
\* ends no later than max_hours, with the deadlock diagnostic (queue empty,
\* active empty, blocked non-empty) counting one blocked_module task.
C11_DeadlockDetected ==
    \A t \in DOMAIN tasks :
        NoModuleFor(t) =>
            /\ \A a \in Attempts : a.task = t => ~a.ok /\ a.status = "blocked_module"
            /\ tasks[t].status # "active" /\ t \notin Range(active_tasks)
            /\ ticks <= max_hours
            /\ RunEnded =>
                  /\ run_status = "stuck"
                  /\ task_queue = << >> /\ active_tasks = << >> /\ blocked_tasks # {}
                  /\ blocked_reasons("blocked_module") = 1

\* the retry pass as it should_retry: no task it had to requeue is left in
\* blocked_tasks
NothingToRetry ==
    \A t \in blocked_tasks :
        /\ tasks[t].status = "blocked_dependencies"
        /\ ~(tasks[t].dependencies \subseteq completed_task_ids)

\* what the last retry pass requeued is queued under its original key
RequeuedInQueue ==
    \A u \in unblocked :
        /\ u[2] \in RetryStatuses
              \/ /\ u[2] = "blocked_dependencies"
                 /\ tasks[u[1]].dependencies \subseteq completed_task_ids
        /\ u[1] \notin blocked_tasks
        /\ tasks[u[1]].status = "queued"
        /\ \E i \in 1..Len(task_queue) : task_queue[i] = TaskKey(u[1])

\* C30: the re-evaluation pass is made in the ticks numbered 0, 10, 20, ...
\* and in no other; a pass leaves in blocked_tasks only blocked_dependencies
\* tasks with an uncompleted dependency, and every task it took out is
\* queued and in the priority queue under its (priority, task_id) key.
C30_RetryEveryTenTicks ==
    /\ RequeuedInQueue
    /\ (ticks > 0 /\ (ticks - 1) % 10 = 0) => NothingToRetry
    /\ (ticks > 0 /\ (ticks - 1) % 10 # 0) => unblocked = {}

\* C21: what create_production_task takes out of the waste of a kind,
\* times the recovery rate of the kind, is added to the storage of that
\* kind, where the resources gate will look for it.
C21_RecyclingConserves ==
    [][\A k \in Kinds :
          waste_inventory'[k] < waste_inventory[k] =>
              InvGet(current_inventory', k) =
                  InvGet(current_inventory, k)
                  + ((waste_inventory[k] - waste_inventory'[k]) * RecoveryRate(k)) \div 100]_vars

\* C22: a create_production_task call for a recipe with software_required
\* makes a task for that software (quantity 1, priority P + 2, a dependency
\* of the task asked for) exactly when the library holds no package of that
\* software kind; after a task producing the kind has completed it makes
\* none.
C22_SoftwareOnce ==
    [][(ticks' = ticks /\ task_counter' > task_counter /\ ~cycle_error'
           /\ FindRecipe(requested').software_required # None)
         => LET top == task_counter + 1
                sw == FindRecipe(requested').software_required
            IN  (\E t \in DOMAIN tasks' \ DOMAIN tasks :
                    /\ tasks'[t].output = sw
                    /\ tasks'[t].quantity = 100
                    /\ tasks'[t].priority = tasks'[top].priority + 2
                    /\ t \in tasks'[top].dependencies)
                <=> ~(\E package \in software_library : package.type = sw)]_vars

\* the kinds a task for kind k can be expanded into in one step
InputKinds(k) ==
    IF ~HasRecipe(k) THEN {}
    ELSE { FindRecipe(k).inputs[i][1] : i \in 1..Len(FindRecipe(k).inputs) }
         \cup (IF FindRecipe(k).software_required = None THEN {}
               ELSE {FindRecipe(k).software_required})

RECURSIVE Below(_, _)
\* the kinds reached from the kinds S in at least one and at most n steps
Below(S, n) ==
    IF n = 0 THEN {}
    ELSE LET next == UNION { InputKinds(k) : k \in S }
         IN  next \cup Below(next, n - 1)

\* some root-to-leaf expansion path from kind k holds a kind twice
PathRepeats(k) ==
    \E j \in {k} \cup Below({k}, Cardinality(Kinds)) :
        j \in Below({j}, Cardinality(Kinds))

\* C23: create_production_task raises the cycle error only when a kind
\* occurs twice on one expansion path from the kind asked for: a kind under
\* two siblings, or under two orders, raises none.
C23_DiamondsAllowed == cycle_error => PathRepeats(requested)

\* the diamond was expanded: the two sides of the truss each got a rod task
\* of their own
C23_Witness ==
    /\ requested = "truss" /\ ~cycle_error
    /\ \E t, a, b, d, e \in DOMAIN tasks :
         /\ tasks[t].output = "truss" /\ tasks[t].dependencies = {a, b}
         /\ tasks[a].output = "strut" /\ tasks[a].dependencies = {d}
         /\ tasks[b].output = "brace" /\ tasks[b].dependencies = {e}
         /\ tasks[d].output = "rod" /\ tasks[e].output = "rod" /\ d # e

\* C24: in every reachable state at most 20 transport jobs are in
\* active_transports, and a pass of process_transport_queue starts at
\* most 5 jobs.
C24_TransportBound ==
    /\ Len(transport_system.active_transports) <= MAX_CONCURRENT_TRANSPORTS
    /\ transport_system.jobs_started <= MAX_STARTS

AgvTransporting(a) ==
    /\ a \in DOMAIN transport_system.agv_fleet
    /\ transport_system.agv_fleet[a].status = "transporting"

AgvIdle(a) ==
    /\ a \in DOMAIN transport_system.agv_fleet
    /\ transport_system.agv_fleet[a].status = "idle"

\* C25: every transport job dispatched to an AGV is eventually in
\* completed_transports, and an AGV that is transporting is eventually
\* idle again (as long as the program has not stopped on an exception).
C25_JobLifecycle ==
    /\ \A uid \in 1..MaxLiveJobs :
          (uid \in transport_system.agv_jobs)
              ~> (uid \in Range(transport_system.completed_transports)
                  \/ transport_system.raised)
    /\ \A a \in 0..(LiveCalls.agv_fleet_size - 1) :
          AgvTransporting(a) ~> (AgvIdle(a) \/ transport_system.raised)

\* the keys of the cache
KeysIn(c) == { c.cache[i].key : i \in 1..Len(c.cache) }

\* the key of the cache whose last use is the oldest
Oldest(c) ==
    CHOOSE k \in KeysIn(c) : \A j \in KeysIn(c) : c.last_use[k] <= c.last_use[j]

\* C26: the cache never holds more than max_size entries; a set of a new
\* key at capacity evicts exactly the entry whose last use (successful get,
\* or set) is the oldest; no other call removes an entry; and every entry
\* is held, and returned by get, with the value last set for it.
C26_LruEviction ==
    /\ [](/\ Len(resource_cache.cache) <= resource_cache.max_size
          /\ Cardinality(KeysIn(resource_cache)) = Len(resource_cache.cache)
          /\ \A k \in KeysIn(resource_cache) :
                CacheValue(resource_cache.cache, k) = resource_cache.last_set[k])
    /\ [][IF /\ KeysIn(resource_cache') \ KeysIn(resource_cache) # {}
             /\ Len(resource_cache.cache) = resource_cache.max_size
          THEN /\ KeysIn(resource_cache) \ KeysIn(resource_cache')
                    = {Oldest(resource_cache)}
               /\ resource_cache'.evicted = Oldest(resource_cache)
          ELSE KeysIn(resource_cache) \subseteq KeysIn(resource_cache')]_vars
    /\ [][\A key \in KeysIn(resource_cache) :
            resource_cache' = cache_get(resource_cache, key)
                => resource_cache'.returned = resource_cache.last_set[key]]_vars

\* a cache of size 3 is full, a get has hit, and the last set removed a
\* key that was not the first of the present keys to be set
C26_Witness ==
    /\ resource_cache.max_size = 3
    /\ Len(resource_cache.cache) = 3
    /\ resource_cache.hits > 0
    /\ resource_cache.evicted = << "B", 2 >>
    /\ << "A", 1 >> \in KeysIn(resource_cache)
    /\ resource_cache.last_set[<< "A", 1 >>] # NoValue
    /\ resource_cache.calls = 5

\* C27: a publish on a full bounded queue adds one to dropped_events and
\* leaves queue and history as they are, and it raises the overflow error
\* exactly when dropped_events then exceeds 10% of max_queue_size; a publish
\* on a queue with room raises nothing.
C27_Backpressure ==
    [][event_bus'.published # event_bus.published =>
         IF event_bus.max_queue_size > 0
            /\ Len(event_bus.event_queue) = event_bus.max_queue_size
         THEN /\ event_bus'.dropped_events = event_bus.dropped_events + 1
              /\ event_bus'.event_queue = event_bus.event_queue
              /\ event_bus'.event_history = event_bus.event_history
              /\ event_bus'.raised
                    = (10 * event_bus'.dropped_events > event_bus.max_queue_size)
         ELSE /\ ~event_bus'.raised
              /\ event_bus'.dropped_events = event_bus.dropped_events
              /\ Len(event_bus'.event_queue) = Len(event_bus.event_queue) + 1]_vars

\* the second event dropped by the queue of ten raised the error (the first did not)
C27_Witness ==
    /\ event_bus.max_queue_size = 10
    /\ Len(event_bus.event_queue) = 10
    /\ event_bus.dropped_events = 2
    /\ event_bus.last_call = "publish"
    /\ event_bus.raised

\* the number of times process_events called the handler with the event
TimesInvoked(bus, handler, uid) ==
    Cardinality({ i \in 1..Len(bus.invoked) : bus.invoked[i] = << handler, uid >> })

\* C28: process_events calls every handler subscribed to the type of a
\* queued event exactly once with that event, the events being taken in
\* publish order.
C28_SingleDelivery ==
    [][event_bus'.last_call = "process" =>
         /\ \A i \in 1..Len(event_bus.event_queue) :
              \A handler \in Range(event_bus.subscribers[event_bus.event_queue[i].type]) :
                 TimesInvoked(event_bus', handler, event_bus.event_queue[i].uid) = 1
         /\ \A i, j \in 1..Len(event_bus'.invoked) :
              i < j => event_bus'.invoked[i][2] <= event_bus'.invoked[j][2]]_vars

\* the registered subsystems
Registered(o) == Range(o.subsystems)

\* the registered dependencies of a registered subsystem
RegisteredDeps(o, name) == o.dependencies[name] \cap Registered(o)

\* the subsystems reached from the set S along at most k dependencies
RECURSIVE DependsOn(_, _, _)
DependsOn(o, S, k) ==
    IF k = 0 THEN {}
    ELSE UNION { RegisteredDeps(o, n) : n \in S }
         \cup DependsOn(o, UNION { RegisteredDeps(o, n) : n \in S }, k - 1)

\* the dependencies among the registered subsystems are acyclic
Acyclic(o) ==
    \A n \in Registered(o) : n \notin DependsOn(o, {n}, Cardinality(SubsystemNames))

\* update_order.index(name)
IndexIn(order, name) == CHOOSE i \in 1..Len(order) : order[i] = name

\* C29: update_order contains every registered subsystem exactly once,
\* and, the dependencies being acyclic, every registered dependency of a
\* subsystem precedes that subsystem in update_order.
C29_UpdateOrder ==
    /\ Len(orchestrator.update_order) = Len(orchestrator.subsystems)
    /\ Range(orchestrator.update_order) = Registered(orchestrator)
    /\ Cardinality(Registered(orchestrator)) = Len(orchestrator.subsystems)
    /\ Acyclic(orchestrator) =>
         \A n \in Registered(orchestrator) : \A dep \in RegisteredDeps(orchestrator, n) :
            IndexIn(orchestrator.update_order, dep)
                < IndexIn(orchestrator.update_order, n)

\* the diamond, registered from the top down
C29_Witness ==
    /\ orchestrator.subsystems = << "sub1", "sub2", "sub3", "sub4" >>
    /\ orchestrator.dependencies["sub1"] = {"sub2", "sub3"}
    /\ orchestrator.dependencies["sub2"] = {"sub4"}
    /\ orchestrator.dependencies["sub3"] = {"sub4"}
    /\ orchestrator.dependencies["sub4"] = {}
    /\ orchestrator.update_order[1] = "sub4"
    /\ orchestrator.update_order[4] = "sub1"


\* an input of the recipe that is short in storage, recycling included, and
\* has no recipe
ShortWithoutRecipe(inv, waste, recipe, quantity) ==
    \E i \in 1..Len(recipe.inputs) :
        /\ ~HasRecipe(recipe.inputs[i][1])
        /\ InvGet(inv, recipe.inputs[i][1])
              + recycling_recovered(waste, recipe.inputs[i][1],
                                    RequiredInput(recipe, i, quantity))
           < RequiredInput(recipe, i, quantity)

\* C31: a create_production_task call makes no task, and so pushes none on
\* the priority queue, for a kind whose recipe has an input that is short in
\* storage and has no recipe.
C31_MissingRecipeFails ==
    [][\A t \in DOMAIN tasks' \ DOMAIN tasks :
          ~ShortWithoutRecipe(current_inventory, waste_inventory,
                              FindRecipe(tasks'[t].output), tasks'[t].quantity)]_vars

\* the modules a task left in the step: those of the tasks completed in it
LeftByTask(m) ==
    \E i \in 1..Len(completed_this_step') :
        /\ completed_this_step'[i] \notin Range(completed_this_step)
           \/ ticks' # ticks
        /\ tasks'[completed_this_step'[i]].assigned_module = m

\* the module is in its maintenance window and holds no task
Blocked(m) ==
    module_states[m].is_in_maintenance =>
        /\ module_states[m].current_task = NoTask
        /\ \A t \in Range(active_tasks) : tasks[t].assigned_module # m

\* the step of a module in maintenance: it stays there until the time has
\* reached maintenance_end_time, and then leaves it with
\* time_since_maintenance = 0 and an efficiency raised by at most 10%, capped
Leaves(m) ==
    module_states[m].is_in_maintenance /\ ticks' = ticks + 1 =>
        IF time >= module_states[m].maintenance_end_time
        THEN /\ ~module_states'[m].is_in_maintenance
             /\ module_states'[m].time_since_maintenance = 0
             /\ module_states'[m].current_efficiency >= module_states[m].current_efficiency
             /\ module_states'[m].current_efficiency * 10
                  <= module_states[m].current_efficiency * 11
             /\ module_states'[m].current_efficiency <= 1000
        ELSE module_states'[m].is_in_maintenance

\* the module enters maintenance for 8 hours
Enters(m) ==
    /\ module_states'[m].is_in_maintenance
    /\ module_states'[m].maintenance_end_time = time + MAINTENANCE_DURATION

\* C32 as stated: a module that a completed task leaves with
\* time_since_maintenance >= maintenance_interval enters maintenance for 8
\* hours; in that window it is assigned no task; at the first tick with
\* time >= maintenance_end_time it leaves maintenance with
\* time_since_maintenance = 0 and its efficiency raised by at most 10% and
\* capped at 1.0.
C32_MaintenanceWindow_Original ==
    [][\A m \in ModuleIds :
          /\ (LeftByTask(m) /\ ticks' = ticks + 1
              /\ module_states'[m].time_since_maintenance
                   >= SpecOf(module_states'[m]).maintenance_interval) => Enters(m)
          /\ Blocked(m)'
          /\ Leaves(m)]_vars

\* C32: the same for a module that did not fail when the task completed (a
\* module that fails at the completion is marked failed and is not put in
\* maintenance).
C32_MaintenanceWindow ==
    [][\A m \in ModuleIds :
          /\ (LeftByTask(m) /\ ticks' = ticks + 1
              /\ ~module_states'[m].is_failed
              /\ module_states'[m].time_since_maintenance
                   >= SpecOf(module_states'[m]).maintenance_interval) => Enters(m)
          /\ Blocked(m)'
          /\ Leaves(m)]_vars

\* the press has been through a maintenance window, which it left with its
\* efficiency raised from 0.9 to 0.99, and the task that waited for it
\* during the window is now running on it
C32_Witness ==
    /\ ~module_states["press_001"].is_in_maintenance
    /\ module_states["press_001"].maintenance_end_time > 0
    /\ module_states["press_001"].time_since_maintenance = 0
    /\ module_states["press_001"].current_efficiency = 990
    /\ module_states["press_001"].current_task # NoTask
    /\ Len(completed_tasks) = 1

\* the input kinds the task consumes
ConsumedKinds(t) ==
    { FindRecipe(tasks[t].output).inputs[i][1] :
        i \in 1..Len(FindRecipe(tasks[t].output).inputs) }

\* C33: no stored quantity is ever negative, however many tasks that were
\* started in the same tick consume the same input kind.
C33_StorageNonNegative ==
    \A r \in DOMAIN current_inventory : current_inventory[r] >= 0

\* two tasks started in the same tick have consumed the same input kind
C33_Witness ==
    \E i, j \in 1..Len(started) :
        /\ i < j
        /\ ConsumedKinds(started[i]) \cap ConsumedKinds(started[j]) # {}

\* of two tasks that consume the same input kind and were admitted in the
\* same tick, the first was started and the second turned away for lack of it
SharedInputTurnedAway ==
    \E i, j \in 1..Len(attempts) :
        /\ i < j
        /\ attempts[i].ok
        /\ attempts[j].status = "blocked_resources"
        /\ ConsumedKinds(attempts[i].task) \cap ConsumedKinds(attempts[j].task) # {}

\* the active tasks assigned to the module
TasksOn(m) == { t \in Range(active_tasks) : tasks[t].assigned_module = m }

\* C34: each module is the assigned_module of at most one active task, the
\* module of each active task has that task as its current_task, and a
\* module that is failed or in maintenance holds no task.
C34_ModuleExclusive ==
    /\ \A m \in DOMAIN module_states : Cardinality(TasksOn(m)) <= 1
    /\ \A t \in Range(active_tasks) :
          /\ tasks[t].assigned_module \in DOMAIN module_states
          /\ module_states[tasks[t].assigned_module].current_task = t
    /\ \A m \in DOMAIN module_states :
          module_states[m].is_failed \/ module_states[m].is_in_maintenance =>
              /\ module_states[m].current_task = NoTask
              /\ TasksOn(m) = {}

\* a module has failed, a task that needs a module of its kind was turned
\* away in the last admission, and another module is running a task
C34_Witness ==
    /\ \E m \in DOMAIN module_states, i \in 1..Len(attempts) :
          /\ module_states[m].is_failed
          /\ attempts[i].status = "blocked_module"
          /\ FindRecipe(tasks[attempts[i].task].output).required_module
               = module_states[m].module_type
    /\ active_tasks # << >>

\* C35: a process_task call that returns False leaves the state of every
\* module as it was, last_product_type included (so that the task is still
\* charged the setup time when it starts later).
C35_ChangeoverSurvives ==
    \A i \in 1..Len(attempts) : ~attempts[i].ok => attempts[i].modules_same

\* C36: a process_task call that ends with the task blocked leaves the
\* transport queue as it was.
C36_BlockedSchedulesNoTransport ==
    \A i \in 1..Len(attempts) : ~attempts[i].ok => attempts[i].transport_same

\* the jobs waiting in the transport queue or under way
PendingJobs ==
    Range(transport_system.transport_queue) \cup Range(transport_system.active_transports)

\* C37: no two jobs that are in the transport queue or in active_transports
\* have the same job_id.
C37_JobIdsUnique ==
    \A a, b \in PendingJobs : a.uid # b.uid => a.job_id # b.job_id

\* quantity / conveyor_capacity of a job, in permille
ConveyorShare(job) == (job.quantity * 1000) \div CONVEYOR_CAPACITY

RECURSIVE ConveyorLoad(_, _)
\* the sum of the shares of the first n active jobs that are on the conveyor
ConveyorLoad(active, n) ==
    IF n = 0 THEN 0
    ELSE ConveyorLoad(active, n - 1)
         + (IF active[n].assigned_vehicle = NoAgv THEN ConveyorShare(active[n]) ELSE 0)

\* the jobs on the conveyor
OnConveyorNow(ts) ==
    { job.uid : job \in { j \in Range(ts.active_transports) : j.assigned_vehicle = NoAgv } }

QueueEntries(t) == Cardinality({ i \in 1..Len(task_queue) : task_queue[i][2] = t })

\* C39: a task id occurs at most once in the priority queue and is never in
\* the priority queue and in blocked_tasks at once, and a task of
\* completed_tasks is in neither.
C39_SingleResidence ==
    /\ \A t \in DOMAIN tasks : QueueEntries(t) <= 1
    /\ QueueIds(task_queue) \cap blocked_tasks = {}
    /\ Range(completed_tasks) \cap (QueueIds(task_queue) \cup blocked_tasks) = {}

\* after a retry pass: a task is back in the queue, another is still in
\* blocked_tasks, and a task has been completed
C39_Witness ==
    /\ unblocked # {}
    /\ task_queue # << >>
    /\ blocked_tasks # {}
    /\ completed_tasks # << >>

=========================================================================
